---- MODULE Spec2Model ----
(***************************************************************************)
(* AEGIS: the AegisRiskManager score registry (contracts/src/              *)
(* AegisRiskManager.sol), the oracle submission route (apps/web/app/api/   *)
(* iexec/submit-score/route.ts) and the TEE execution panel's              *)
(* executeComputation (the submission orchestrator).                       *)
(*                                                                         *)
(* A transaction of the registry is one atomic action: the Solidity        *)
(* function runs on a transaction-local copy of storage and of the event   *)
(* log, and Commit either keeps that copy or, on a revert, discards it.    *)
(* View functions are operators over the current storage and block time.   *)
(* executeComputation and the route's POST are asynchronous: each await is *)
(* a point where they stop, and one action runs from one await to the next.*)
(***************************************************************************)
EXTENDS Integers, Sequences, FiniteSets, TLC

VARIABLES
    assetScores,   \* mapping(address => mapping(bytes32 => RiskScore))
    teeOracle,     \* address public teeOracle
    _owner,        \* Ownable's owner, set by the constructor
    now,           \* block.timestamp of the next block
    receipt,       \* receipt of the last transaction sent to the registry
    lastWrite,     \* history: per key, what the last RiskScoreUpdated event
                   \* of a mined transaction said and the block time it had
    executionStep,     \* useState<ExecutionStep>("idle")
    progress,          \* useState(0), in percent
    currentAssetIndex, \* useState(0)
    errorMessage,      \* useState(""), as the sequence of its parts
    gaslessMode,       \* useState(false)
    isGaslessEnabled,  \* useSmartAccount().isGaslessEnabled
    walletClient,      \* useWalletClient().data is defined
    assets,            \* the dashboard's asset list: status per asset id
    frame,             \* the activation of executeComputation in progress
    runs,              \* number of runs started so far
    started,           \* history: the settings and the batch each run
                       \* started with, and the registry's oracle then
    log,               \* history: the external calls of the runs and the
                       \* errors of the direct transport they caught
    completed,         \* history: the invocations of onComputeComplete
    txs,               \* the transactions broadcast to the chain, by hash
    route              \* the request POST /api/iexec/submit-score is serving

regVars == <<assetScores, teeOracle, _owner, now, receipt, lastWrite>>

panelVars ==
    <<executionStep, progress, currentAssetIndex, errorMessage, gaslessMode,
      isGaslessEnabled, walletClient, assets, frame, runs, started, log,
      completed>>

runVars == <<panelVars, txs, route>>

vars == <<regVars, runVars>>

----------------------------------------------------------------------------
(* Program constants *)

MIN_ITERATIONS == 5000

MAX_LTV_BPS == 10000

SCORE_VALIDITY_PERIOD == 604800

----------------------------------------------------------------------------
(* Bounds of the model *)

\* Width in bits of the model's unsigned word. The contract's words are 256
\* bits wide; TLC's integers are 32 bits wide, so the width is scaled and the
\* checked arithmetic of Solidity 0.8 (a panic on overflow) is kept.
UintBits == 24

\* Latest block time the model reaches: one validity period and one second
\* after deployment.
MaxTime == 604802

\* Longest batch handed to submitBulkRiskScores.
MaxBatch == 2

\* Longest batch under SpecBulk.
MaxDeepBatch == 3

UINT_MAX == 2^UintBits - 1

----------------------------------------------------------------------------
(* The universe of inputs *)

ZeroAddress == "0x0"

Admin == "admin"

OracleA == "oracleA"

OracleB == "oracleB"

User == "user"

Addresses == {Admin, OracleA, OracleB, User}

\* Accounts that send transactions to the registry on their own.
Senders == {Admin, OracleA, OracleB}

Owners == {User}

AssetIds == {"asset1", "asset2"}

ZeroBytes32 == "0x00"

TaskIds == {"task1"}

\* (varScore, safeLTV) inputs: in range, on the ceiling, and each one above it.
ScorePairs ==
    { <<1500, 7200>>, <<MAX_LTV_BPS, MAX_LTV_BPS>>,
      <<MAX_LTV_BPS + 1, 7200>>, <<1500, MAX_LTV_BPS + 1>>,
      <<MAX_LTV_BPS + 1, MAX_LTV_BPS + 1>> }

IterationInputs == {MIN_ITERATIONS - 1, MIN_ITERATIONS}

\* BulkScoreData tuples a batch is built from: two values for asset1, one for
\* asset2, and one out-of-range tuple for each.
BulkTuples ==
    { [assetId |-> "asset1", varScore |-> 1500, safeLTV |-> 7200],
      [assetId |-> "asset2", varScore |-> 1500, safeLTV |-> 7200],
      [assetId |-> "asset1", varScore |-> MAX_LTV_BPS, safeLTV |-> MAX_LTV_BPS],
      [assetId |-> "asset1", varScore |-> MAX_LTV_BPS + 1, safeLTV |-> 7200],
      [assetId |-> "asset2", varScore |-> 1500, safeLTV |-> MAX_LTV_BPS + 1] }

SeqsUpTo(S, n) == UNION { [1..k -> S] : k \in 0..n }

BulkInputs == SeqsUpTo(BulkTuples, MaxBatch)

\* collateralValue inputs: small amounts, whose product with any safeLTV
\* fits the word, and the amounts around UINT_MAX / safeLTV, where the
\* product stops fitting.
CollateralValues ==
    { 0, 1, 1000, 1001, UINT_MAX \div MAX_LTV_BPS, UINT_MAX \div MAX_LTV_BPS + 1,
      UINT_MAX \div 7200, UINT_MAX \div 7200 + 1, UINT_MAX }

----------------------------------------------------------------------------
(* The dashboard's universe *)

\* Most runs a user starts.
MaxRuns == 1

\* Most runs a user starts where a run is started again after an error.
MaxReruns == 2

\* useAccount().address: the connected wallet, owner of the scores.
address == User

\* privateKeyToAccount(IEXEC_BACKEND_PRIVATE_KEY): the account the route
\* signs with, deployed as the registry's teeOracle.
account == OracleA

\* The ids of the dashboard's assets, in list order.
AssetList == <<"asset-1", "asset-2">>

\* asset.value, in dollars.
AssetValue(id) == IF id = "asset-1" THEN 1000 ELSE 2500

\* The task id a computation returns: "0x" and 64 hex digits.
MockTaskId == "0xtask"

\* keccak256(toBytes(s)) of the strings the panel and the route hash.
keccak256(s) ==
    CASE s = "asset-1" -> "asset1"
      [] s = "asset-2" -> "asset2"
      [] s = MockTaskId -> "task1"

\* s.startsWith('0x') && s.length === 66
IsHex66(s) == s = MockTaskId

\* Result blobs processData hands back: the fields at top level, the fields
\* under results[0] with a VaR above the cap, and neither.
ComputeResults ==
    { [var_95_bps |-> 2000, safe_ltv_bps |-> 7000],
      [results |-> <<[var_95_bps |-> 12000, safe_ltv_bps |-> 6000]>>],
      [deal |-> "0xdeal"] }

\* parseInt(protectedDataAddress.slice(2, 10), 16) of the protected data the
\* endpoint is asked about.
Seeds == {0, 1000}

\* results of POST /api/iexec/process: with random ==
\* ((seed * 9301 + 49297) % 233280) / 233280, var_95 is
\* Math.round(5000 + random * 15000), var_99 is Math.round(var_95 * 1.3)
\* and safe_ltv_bps is Math.floor(7500 - random * 2000).
processResults(seed) ==
    LET r == (seed * 9301 + 49297) % 233280
    IN  [var_95 |-> 5000 + ((250 * r + 1944) \div 3888),
         var_99 |-> 6500 + ((325 * r + 1944) \div 3888),
         safe_ltv_bps |-> 7500 - ((25 * r + 2915) \div 2916)]

\* The JSON bodies POST /api/iexec/process answers with status 200: the
\* simulated computation with its results, the task that was only started,
\* and results that name the value at risk var_95_bps, below and above the
\* cap of the panel.
ProcessResponses ==
    { [success |-> TRUE, taskId |-> MockTaskId, status |-> "COMPLETED",
       results |-> processResults(seed)] : seed \in Seeds }
    \cup
    { [success |-> TRUE, taskId |-> MockTaskId, status |-> "PENDING"] }
    \cup
    { [success |-> TRUE, taskId |-> MockTaskId, status |-> "COMPLETED",
       results |-> [var_95_bps |-> v, safe_ltv_bps |-> 7000]] :
         v \in {2000, 12000} }

\* Messages of the errors walletClient.sendTransaction rejects with.
WalletErrors ==
    { "User rejected the request.",
      "MetaMask Tx Signature: User denied transaction signature.",
      "Internal JSON-RPC error." }

\* message.includes(needle), for the messages and needles of the panel.
Includes(message, needle) ==
    \/ needle = "User rejected" /\ message = "User rejected the request."
    \/ needle = "User denied"
          /\ message = "MetaMask Tx Signature: User denied transaction signature."

----------------------------------------------------------------------------
(* Storage *)

\* Block time at deployment (block.timestamp is positive on every chain).
GenesisTime == 1

\* The zero value of struct RiskScore: what a mapping holds for a key that
\* was never written.
ZeroScore ==
    [varScore |-> 0, safeLTV |-> 0, timestamp |-> 0,
     teeTaskId |-> ZeroBytes32, iterations |-> 0]

Keys == Owners \X AssetIds

NeverWritten == [at |-> 0, varScore |-> 0, safeLTV |-> 0]

AssetIdsOf(list) == { list[j] : j \in 1..Len(list) }

\* No run in progress.
NoFrame == [pc |-> "none"]

\* No request in flight.
NoRequest == [pc |-> "idle"]

\* constructor(address _owner, address _teeOracle) Ownable(_owner): what a
\* deployment leaves, or the error it reverts with.
constructorBody(initialOwner, _teeOracle) ==
    IF initialOwner = ZeroAddress
    THEN [status |-> "OwnableInvalidOwner", owner |-> ZeroAddress,
          oracle |-> ZeroAddress]
    ELSE IF _teeOracle = ZeroAddress
    THEN [status |-> "ZeroAddress", owner |-> ZeroAddress, oracle |-> ZeroAddress]
    ELSE [status |-> "success", owner |-> initialOwner, oracle |-> _teeOracle]

\* constructor(_owner, _teeOracle), as the test's setUp deploys it, and the
\* dashboard as it mounts with its assets protected.
Init ==
    /\ assetScores = [k \in Keys |-> ZeroScore]
    /\ constructorBody(Admin, OracleA).status = "success"
    /\ teeOracle = constructorBody(Admin, OracleA).oracle
    /\ _owner = constructorBody(Admin, OracleA).owner
    /\ now = GenesisTime
    /\ receipt = [fn |-> "constructor", status |-> "success", logs |-> <<>>]
    /\ lastWrite = [k \in Keys |-> NeverWritten]
    /\ executionStep = "idle"
    /\ progress = 0
    /\ currentAssetIndex = 0
    /\ errorMessage = <<>>
    /\ gaslessMode = FALSE
    /\ isGaslessEnabled = FALSE
    /\ walletClient = TRUE
    /\ assets = [id \in AssetIdsOf(AssetList) |-> "protected"]
    /\ frame = NoFrame
    /\ runs = 0
    /\ started = <<>>
    /\ log = <<>>
    /\ completed = <<>>
    /\ txs = <<>>
    /\ route = NoRequest

----------------------------------------------------------------------------
(* Events *)

RiskScoreUpdated(owner, assetId, varScore, safeLTV, teeTaskId) ==
    [event |-> "RiskScoreUpdated", owner |-> owner, assetId |-> assetId,
     varScore |-> varScore, safeLTV |-> safeLTV, teeTaskId |-> teeTaskId]

BulkScoresSubmitted(owner, count, teeTaskId) ==
    [event |-> "BulkScoresSubmitted", owner |-> owner, count |-> count,
     teeTaskId |-> teeTaskId]

TEEOracleUpdated(oldOracle, newOracle) ==
    [event |-> "TEEOracleUpdated", oldOracle |-> oldOracle,
     newOracle |-> newOracle]

----------------------------------------------------------------------------
(* Transactions.  A transaction-local state is                             *)
(*   [status, scores, oracle, logs]:                                       *)
(* status is "success" while the function runs and the name of the custom  *)
(* error once it has reverted.                                             *)

Begin == [status |-> "success", scores |-> assetScores,
          oracle |-> teeOracle, logs |-> <<>>]

Revert(tx, error) == [tx EXCEPT !.status = error]

Emit(tx, e) == [tx EXCEPT !.logs = Append(@, e)]

\* onlyTEE with the contract owner let through as well.
onlyTEE_OrOwner(sender) == sender = teeOracle \/ sender = _owner

\* modifier onlyTEE
onlyTEE(sender) == sender = teeOracle

\* onlyOwner with the current oracle let through as well.
onlyOwner_OrOracle(sender) == sender = _owner \/ sender = teeOracle

\* modifier onlyOwner (OpenZeppelin Ownable)
onlyOwner(sender) == sender = _owner

\* _validateAndStoreScore that stores the record under every asset of the
\* owner.
_validateAndStoreScore_EveryAsset(tx, owner, assetId, varScore, safeLTV, teeTaskId, iterations) ==
    IF varScore > MAX_LTV_BPS THEN Revert(tx, "InvalidVaRScore")
    ELSE IF safeLTV > MAX_LTV_BPS THEN Revert(tx, "InvalidLTV")
    ELSE IF iterations < MIN_ITERATIONS THEN Revert(tx, "InsufficientIterations")
    ELSE [tx EXCEPT !.scores =
              [k \in Keys |->
                  IF k[1] = owner
                  THEN [varScore |-> varScore, safeLTV |-> safeLTV,
                        timestamp |-> now, teeTaskId |-> teeTaskId,
                        iterations |-> iterations]
                  ELSE tx.scores[k]]]

\* _validateAndStoreScore that keeps the record a key already holds.
_validateAndStoreScore_FirstWriteWins(tx, owner, assetId, varScore, safeLTV, teeTaskId, iterations) ==
    IF varScore > MAX_LTV_BPS THEN Revert(tx, "InvalidVaRScore")
    ELSE IF safeLTV > MAX_LTV_BPS THEN Revert(tx, "InvalidLTV")
    ELSE IF iterations < MIN_ITERATIONS THEN Revert(tx, "InsufficientIterations")
    ELSE IF tx.scores[<<owner, assetId>>].timestamp # 0 THEN tx
    ELSE [tx EXCEPT !.scores[<<owner, assetId>>] =
              [varScore |-> varScore, safeLTV |-> safeLTV, timestamp |-> now,
               teeTaskId |-> teeTaskId, iterations |-> iterations]]

\* _validateAndStoreScore that stamps every record with the deployment time.
_validateAndStoreScore_FixedTimestamp(tx, owner, assetId, varScore, safeLTV, teeTaskId, iterations) ==
    IF varScore > MAX_LTV_BPS THEN Revert(tx, "InvalidVaRScore")
    ELSE IF safeLTV > MAX_LTV_BPS THEN Revert(tx, "InvalidLTV")
    ELSE IF iterations < MIN_ITERATIONS THEN Revert(tx, "InsufficientIterations")
    ELSE [tx EXCEPT !.scores[<<owner, assetId>>] =
              [varScore |-> varScore, safeLTV |-> safeLTV, timestamp |-> GenesisTime,
               teeTaskId |-> teeTaskId, iterations |-> iterations]]

\* _validateAndStoreScore without the check of iterations.
_validateAndStoreScore_NoIterationsCheck(tx, owner, assetId, varScore, safeLTV, teeTaskId, iterations) ==
    IF varScore > MAX_LTV_BPS THEN Revert(tx, "InvalidVaRScore")
    ELSE IF safeLTV > MAX_LTV_BPS THEN Revert(tx, "InvalidLTV")
    ELSE [tx EXCEPT !.scores[<<owner, assetId>>] =
              [varScore |-> varScore, safeLTV |-> safeLTV, timestamp |-> now,
               teeTaskId |-> teeTaskId, iterations |-> iterations]]

\* _validateAndStoreScore without the check of safeLTV.
_validateAndStoreScore_NoLTVCheck(tx, owner, assetId, varScore, safeLTV, teeTaskId, iterations) ==
    IF varScore > MAX_LTV_BPS THEN Revert(tx, "InvalidVaRScore")
    ELSE IF iterations < MIN_ITERATIONS THEN Revert(tx, "InsufficientIterations")
    ELSE [tx EXCEPT !.scores[<<owner, assetId>>] =
              [varScore |-> varScore, safeLTV |-> safeLTV, timestamp |-> now,
               teeTaskId |-> teeTaskId, iterations |-> iterations]]

_validateAndStoreScore(tx, owner, assetId, varScore, safeLTV, teeTaskId, iterations) ==
    IF varScore > MAX_LTV_BPS THEN Revert(tx, "InvalidVaRScore")
    ELSE IF safeLTV > MAX_LTV_BPS THEN Revert(tx, "InvalidLTV")
    ELSE IF iterations < MIN_ITERATIONS THEN Revert(tx, "InsufficientIterations")
    ELSE [tx EXCEPT !.scores[<<owner, assetId>>] =
              [varScore |-> varScore, safeLTV |-> safeLTV, timestamp |-> now,
               teeTaskId |-> teeTaskId, iterations |-> iterations]]

\* The body of submitRiskScore, run on the transaction-local state.
submitRiskScoreBody(sender, owner, assetId, varScore, safeLTV, teeTaskId, iterations) ==
    IF ~onlyTEE(sender) THEN Revert(Begin, "UnauthorizedOracle")
    ELSE LET tx == _validateAndStoreScore(Begin, owner, assetId, varScore,
                                          safeLTV, teeTaskId, iterations)
         IN  IF tx.status # "success" THEN tx
             ELSE Emit(tx, RiskScoreUpdated(owner, assetId, varScore, safeLTV, teeTaskId))

\* The loop that stores and announces one tuple and leaves.
BulkLoop_OneTuple(tx, owner, scores, teeTaskId, iterations, i) ==
    IF i > Len(scores) THEN tx
    ELSE LET s == scores[i]
             t == _validateAndStoreScore(tx, owner, s.assetId, s.varScore,
                                         s.safeLTV, teeTaskId, iterations)
         IN  IF t.status # "success" THEN t
             ELSE Emit(t, RiskScoreUpdated(owner, s.assetId, s.varScore,
                                           s.safeLTV, teeTaskId))

\* The for loop of submitBulkRiskScores from index i on: it stops at the first
\* tuple that reverts, with the writes and events of the tuples before it
\* still in the transaction-local state.
RECURSIVE BulkLoop(_, _, _, _, _, _)
BulkLoop(tx, owner, scores, teeTaskId, iterations, i) ==
    IF i > Len(scores) THEN tx
    ELSE LET s == scores[i]
             t == _validateAndStoreScore(tx, owner, s.assetId, s.varScore,
                                         s.safeLTV, teeTaskId, iterations)
         IN  IF t.status # "success" THEN t
             ELSE BulkLoop(Emit(t, RiskScoreUpdated(owner, s.assetId, s.varScore,
                                                    s.safeLTV, teeTaskId)),
                           owner, scores, teeTaskId, iterations, i + 1)

\* submitBulkRiskScores without the aggregate event after the loop.
submitBulkRiskScoresBody_NoAggregate(sender, owner, scores, teeTaskId, iterations) ==
    IF ~onlyTEE(sender) THEN Revert(Begin, "UnauthorizedOracle")
    ELSE IF Len(scores) = 0 THEN Revert(Begin, "EmptyBulkData")
    ELSE IF iterations < MIN_ITERATIONS THEN Revert(Begin, "InsufficientIterations")
    ELSE BulkLoop(Begin, owner, scores, teeTaskId, iterations, 1)

\* submitBulkRiskScores without the check of the batch's length.
submitBulkRiskScoresBody_NoEmptyCheck(sender, owner, scores, teeTaskId, iterations) ==
    IF ~onlyTEE(sender) THEN Revert(Begin, "UnauthorizedOracle")
    ELSE IF iterations < MIN_ITERATIONS THEN Revert(Begin, "InsufficientIterations")
    ELSE LET tx == BulkLoop(Begin, owner, scores, teeTaskId, iterations, 1)
         IN  IF tx.status # "success" THEN tx
             ELSE Emit(tx, BulkScoresSubmitted(owner, Len(scores), teeTaskId))

submitBulkRiskScoresBody(sender, owner, scores, teeTaskId, iterations) ==
    IF ~onlyTEE(sender) THEN Revert(Begin, "UnauthorizedOracle")
    ELSE IF Len(scores) = 0 THEN Revert(Begin, "EmptyBulkData")
    ELSE IF iterations < MIN_ITERATIONS THEN Revert(Begin, "InsufficientIterations")
    ELSE LET tx == BulkLoop(Begin, owner, scores, teeTaskId, iterations, 1)
         IN  IF tx.status # "success" THEN tx
             ELSE Emit(tx, BulkScoresSubmitted(owner, Len(scores), teeTaskId))

\* setTEEOracle without the check of the new identity.
setTEEOracleBody_NoZeroCheck(sender, newOracle) ==
    IF ~onlyOwner(sender) THEN Revert(Begin, "OwnableUnauthorizedAccount")
    ELSE Emit([Begin EXCEPT !.oracle = newOracle],
              TEEOracleUpdated(teeOracle, newOracle))

\* setTEEOracle that also deletes every record the former oracle wrote.
setTEEOracleBody_ClearsScores(sender, newOracle) ==
    IF ~onlyOwner(sender) THEN Revert(Begin, "OwnableUnauthorizedAccount")
    ELSE IF newOracle = ZeroAddress THEN Revert(Begin, "ZeroAddress")
    ELSE Emit([Begin EXCEPT !.oracle = newOracle,
                            !.scores = [k \in Keys |-> ZeroScore]],
              TEEOracleUpdated(teeOracle, newOracle))

\* setTEEOracle that emits the event and forgets the assignment.
setTEEOracleBody_NoAssign(sender, newOracle) ==
    IF ~onlyOwner(sender) THEN Revert(Begin, "OwnableUnauthorizedAccount")
    ELSE IF newOracle = ZeroAddress THEN Revert(Begin, "ZeroAddress")
    ELSE Emit(Begin, TEEOracleUpdated(teeOracle, newOracle))

setTEEOracleBody(sender, newOracle) ==
    IF ~onlyOwner(sender) THEN Revert(Begin, "OwnableUnauthorizedAccount")
    ELSE IF newOracle = ZeroAddress THEN Revert(Begin, "ZeroAddress")
    ELSE Emit([Begin EXCEPT !.oracle = newOracle],
              TEEOracleUpdated(teeOracle, newOracle))

\* A revert that keeps what the transaction wrote and emitted before it.
Commit_KeepPartial(tx) == tx

\* What a transaction leaves in storage: a revert discards every write and
\* every event of the transaction.
Commit(tx) ==
    IF tx.status = "success" THEN tx
    ELSE [tx EXCEPT !.scores = assetScores, !.oracle = teeOracle, !.logs = <<>>]

\* The history of writes after a transaction with these logs was mined.
RECURSIVE Written(_, _, _)
Written(w, logs, i) ==
    IF i > Len(logs) THEN w
    ELSE LET e == logs[i]
         IN  IF e.event = "RiskScoreUpdated"
             THEN Written([w EXCEPT ![<<e.owner, e.assetId>>] =
                              [at |-> now, varScore |-> e.varScore,
                               safeLTV |-> e.safeLTV]],
                          logs, i + 1)
             ELSE Written(w, logs, i + 1)

Receipt(fn, tx) == [fn |-> fn, status |-> tx.status, logs |-> tx.logs]

\* What each external function, sent as one transaction in the current
\* state, leaves behind.
SubmitResult(sender, owner, assetId, varScore, safeLTV, teeTaskId, iterations) ==
    Commit(submitRiskScoreBody(sender, owner, assetId, varScore, safeLTV,
                               teeTaskId, iterations))

BulkResult(sender, owner, scores, teeTaskId, iterations) ==
    Commit(submitBulkRiskScoresBody(sender, owner, scores, teeTaskId, iterations))

RotateResult(sender, newOracle) == Commit(setTEEOracleBody(sender, newOracle))

submitRiskScore(sender, owner, assetId, varScore, safeLTV, teeTaskId, iterations) ==
    LET tx == SubmitResult(sender, owner, assetId, varScore, safeLTV,
                           teeTaskId, iterations)
    IN  /\ assetScores' = tx.scores
        /\ teeOracle' = tx.oracle
        /\ receipt' = Receipt("submitRiskScore", tx)
        /\ lastWrite' = Written(lastWrite, tx.logs, 1)
        /\ UNCHANGED <<_owner, now, runVars>>

submitBulkRiskScores(sender, owner, scores, teeTaskId, iterations) ==
    LET tx == BulkResult(sender, owner, scores, teeTaskId, iterations)
    IN  /\ assetScores' = tx.scores
        /\ teeOracle' = tx.oracle
        /\ receipt' = Receipt("submitBulkRiskScores", tx)
        /\ lastWrite' = Written(lastWrite, tx.logs, 1)
        /\ UNCHANGED <<_owner, now, runVars>>

setTEEOracle(sender, newOracle) ==
    LET tx == RotateResult(sender, newOracle)
    IN  /\ assetScores' = tx.scores
        /\ teeOracle' = tx.oracle
        /\ receipt' = Receipt("setTEEOracle", tx)
        /\ lastWrite' = Written(lastWrite, tx.logs, 1)
        /\ UNCHANGED <<_owner, now, runVars>>

\* Block time advances (vm.warp in the tests): by one second, or by a whole
\* validity period. One-second steps are taken only as far past a multiple
\* of the period as MaxTime lies.
Ticks(t) == (t - GenesisTime) % SCORE_VALIDITY_PERIOD

Warp(d) ==
    /\ now + d <= MaxTime
    /\ d = 1 => Ticks(now) < Ticks(MaxTime)
    /\ now' = now + d
    /\ UNCHANGED <<assetScores, teeOracle, _owner, receipt, lastWrite, runVars>>

----------------------------------------------------------------------------
(* View functions *)

\* getSafeLTV without the expiry check.
getSafeLTV_NoExpiry(owner, assetId) ==
    LET score == assetScores[<<owner, assetId>>]
    IN  IF score.timestamp = 0 THEN 0 ELSE score.safeLTV

getSafeLTV(owner, assetId) ==
    LET score == assetScores[<<owner, assetId>>]
    IN  IF score.timestamp = 0 THEN 0
        ELSE IF now > score.timestamp + SCORE_VALIDITY_PERIOD THEN 0
        ELSE score.safeLTV

\* getVaRScore handing out the other field of the struct.
getVaRScore_ReturnsLTV(owner, assetId) ==
    LET score == assetScores[<<owner, assetId>>]
    IN  IF score.timestamp = 0 THEN 0
        ELSE IF now > score.timestamp + SCORE_VALIDITY_PERIOD THEN 0
        ELSE score.safeLTV

getVaRScore(owner, assetId) ==
    LET score == assetScores[<<owner, assetId>>]
    IN  IF score.timestamp = 0 THEN 0
        ELSE IF now > score.timestamp + SCORE_VALIDITY_PERIOD THEN 0
        ELSE score.varScore

\* isScoreValid with the last second of the period left out.
isScoreValid_Strict(owner, assetId) ==
    LET score == assetScores[<<owner, assetId>>]
    IN  IF score.timestamp = 0 THEN FALSE
        ELSE now < score.timestamp + SCORE_VALIDITY_PERIOD

isScoreValid(owner, assetId) ==
    LET score == assetScores[<<owner, assetId>>]
    IN  IF score.timestamp = 0 THEN FALSE
        ELSE now <= score.timestamp + SCORE_VALIDITY_PERIOD

getFullRiskScore(owner, assetId) == assetScores[<<owner, assetId>>]

\* The getter Solidity generates for the public mapping: the struct's fields
\* as a tuple.
assetScoresGetter(owner, assetId) ==
    LET score == assetScores[<<owner, assetId>>]
    IN  <<score.varScore, score.safeLTV, score.timestamp, score.teeTaskId,
          score.iterations>>

\* The web client's useRiskScore hook, which reads the public mapping.
useRiskScore(owner, assetId) ==
    LET data == assetScoresGetter(owner, assetId)
    IN  [riskScore |-> [varScore |-> data[1], safeLTV |-> data[2],
                        timestamp |-> data[3], teeTaskId |-> data[4]],
         hasScore |-> data[3] > 0]

\* Checked multiplication of Solidity 0.8: the product, or a panic when it
\* does not fit the word.
MulOverflows(a, b) == b # 0 /\ a > UINT_MAX \div b

\* calculateMaxBorrow that rounds the quotient up.
calculateMaxBorrow_RoundsUp(owner, assetId, collateralValue) ==
    LET score == assetScores[<<owner, assetId>>]
    IN  IF score.timestamp = 0 THEN [ok |-> FALSE, error |-> "ScoreExpired"]
        ELSE IF now > score.timestamp + SCORE_VALIDITY_PERIOD
             THEN [ok |-> FALSE, error |-> "ScoreExpired"]
        ELSE IF MulOverflows(collateralValue, score.safeLTV)
             THEN [ok |-> FALSE, error |-> "Panic(0x11)"]
        ELSE [ok |-> TRUE,
              value |-> (collateralValue * score.safeLTV) \div MAX_LTV_BPS + 1]

\* calculateMaxBorrow that answers 0 for an absent or expired record.
calculateMaxBorrow_ZeroWhenExpired(owner, assetId, collateralValue) ==
    LET score == assetScores[<<owner, assetId>>]
    IN  IF score.timestamp = 0 THEN [ok |-> TRUE, value |-> 0]
        ELSE IF now > score.timestamp + SCORE_VALIDITY_PERIOD
             THEN [ok |-> TRUE, value |-> 0]
        ELSE IF MulOverflows(collateralValue, score.safeLTV)
             THEN [ok |-> FALSE, error |-> "Panic(0x11)"]
        ELSE [ok |-> TRUE,
              value |-> (collateralValue * score.safeLTV) \div MAX_LTV_BPS]

calculateMaxBorrow(owner, assetId, collateralValue) ==
    LET score == assetScores[<<owner, assetId>>]
    IN  IF score.timestamp = 0 THEN [ok |-> FALSE, error |-> "ScoreExpired"]
        ELSE IF now > score.timestamp + SCORE_VALIDITY_PERIOD
             THEN [ok |-> FALSE, error |-> "ScoreExpired"]
        ELSE IF MulOverflows(collateralValue, score.safeLTV)
             THEN [ok |-> FALSE, error |-> "Panic(0x11)"]
        ELSE [ok |-> TRUE,
              value |-> (collateralValue * score.safeLTV) \div MAX_LTV_BPS]

----------------------------------------------------------------------------
(* The registry and its callers *)

RegistryNext ==
    \/ \E sender \in Senders, owner \in Owners, assetId \in AssetIds,
          p \in ScorePairs, teeTaskId \in TaskIds, iterations \in IterationInputs :
          submitRiskScore(sender, owner, assetId, p[1], p[2], teeTaskId, iterations)
    \/ \E sender \in Senders, owner \in Owners, scores \in BulkInputs,
          teeTaskId \in TaskIds, iterations \in IterationInputs :
          submitBulkRiskScores(sender, owner, scores, teeTaskId, iterations)
    \/ \E sender \in Senders, newOracle \in Senders \cup {ZeroAddress} :
          setTEEOracle(sender, newOracle)
    \/ \E d \in {1, SCORE_VALIDITY_PERIOD} : Warp(d)

Next == RegistryNext

Spec == Init /\ [][Next]_vars

\* The registry under batches of up to MaxDeepBatch tuples, so that a batch
\* has a first, a middle and a last tuple; no single submissions and no
\* rotation.
DeepBulkInputs == SeqsUpTo(BulkTuples, MaxDeepBatch)

BulkNext ==
    \/ \E sender \in Senders, owner \in Owners, scores \in DeepBulkInputs,
          teeTaskId \in TaskIds :
          submitBulkRiskScores(sender, owner, scores, teeTaskId, MIN_ITERATIONS)
    \/ \E d \in {1, SCORE_VALIDITY_PERIOD} : Warp(d)

SpecBulk == Init /\ [][BulkNext]_vars

----------------------------------------------------------------------------
(* The chain between the callers and the registry *)

\* A transaction to submitRiskScore as it is broadcast. via, run and asset
\* are history: the transport and the asset of the run that caused it.
PendingTx(from, owner, assetId, varScore, safeLTV, teeTaskId, iterations, req) ==
    [from |-> from, owner |-> owner, assetId |-> assetId, varScore |-> varScore,
     safeLTV |-> safeLTV, teeTaskId |-> teeTaskId, iterations |-> iterations,
     status |-> "pending", via |-> req.via, run |-> req.run, asset |-> req.asset]

\* Hashes of the transactions the runs can broadcast: for each asset of each
\* run, one from the wallet and one from the route.
TxHashes ==
    1..((IF MaxRuns > MaxReruns THEN MaxRuns ELSE MaxReruns) * Len(AssetList) * 2)

\* A block includes the pending transaction h: the registry runs it on the
\* state it finds then, and the receipt says success or reverted.
Mine(h) ==
    /\ h \in DOMAIN txs
    /\ txs[h].status = "pending"
    /\ LET t == txs[h]
           tx == SubmitResult(t.from, t.owner, t.assetId, t.varScore, t.safeLTV,
                              t.teeTaskId, t.iterations)
       IN  /\ assetScores' = tx.scores
           /\ teeOracle' = tx.oracle
           /\ receipt' = Receipt("submitRiskScore", tx)
           /\ lastWrite' = Written(lastWrite, tx.logs, 1)
           /\ txs' = [txs EXCEPT ![h].status =
                         IF tx.status = "success" THEN "success" ELSE "reverted"]
    /\ UNCHANGED <<_owner, now, panelVars, route>>

----------------------------------------------------------------------------
(* The oracle submission route: POST /api/iexec/submit-score *)

\* The request a fetch of the panel puts in flight.
Request(via, run, asset, body) ==
    [pc |-> "request", via |-> via, run |-> run, asset |-> asset, body |-> body,
     hash |-> 0, status |-> 0, error |-> "", txHash |-> 0]

\* NextResponse.json(..., { status })
Respond(status, error, txHash) ==
    [route EXCEPT !.pc = "responded", !.status = status, !.error = error,
                  !.txHash = txHash]

\* !ownerAddress || !assetId || varScore === undefined || safeLTV === undefined
\* || !taskId
MissingFields(body) ==
    body.ownerAddress = "" \/ body.assetId = "" \/ body.taskId = ""

\* assetId.startsWith('0x') && assetId.length === 66 ? assetId : keccak256(...)
Bytes32Of(s) == IF IsHex66(s) THEN s ELSE keccak256(s)

\* The status the catch block answers with for an error thrown by the write.
CatchStatus(error) ==
    CASE error = "UnauthorizedOracle" -> 403
      [] error \in {"InsufficientIterations", "InvalidVaRScore", "InvalidLTV"} -> 400
      [] OTHER -> 500

\* From the request's arrival to the comparison of the registry's teeOracle
\* with the backend account.
POST_readContract ==
    /\ route.pc = "request"
    /\ route' =
         IF MissingFields(route.body)
         THEN Respond(400, "Missing required fields", 0)
         ELSE IF teeOracle # account
         THEN Respond(403, "Backend wallet is not authorized as TEE oracle", 0)
         ELSE [route EXCEPT !.pc = "writeContract"]
    /\ UNCHANGED <<regVars, panelVars, txs>>

\* walletClient.writeContract: it estimates gas by simulating the call on
\* the current state and throws the registry's error if that reverts;
\* otherwise it signs and broadcasts, unless the RPC request fails.
POST_writeContract(rpcOk) ==
    /\ route.pc = "writeContract"
    /\ LET b == route.body
           sim == SubmitResult(account, b.ownerAddress, Bytes32Of(b.assetId),
                               b.varScore, b.safeLTV, Bytes32Of(b.taskId),
                               b.iterations)
       IN  IF ~rpcOk
           THEN /\ route' = Respond(CatchStatus("HTTP request failed."),
                                    "HTTP request failed.", 0)
                /\ UNCHANGED txs
           ELSE IF sim.status # "success"
           THEN /\ route' = Respond(CatchStatus(sim.status), sim.status, 0)
                /\ UNCHANGED txs
           ELSE /\ txs' = Append(txs,
                            PendingTx(account, b.ownerAddress, Bytes32Of(b.assetId),
                                      b.varScore, b.safeLTV, Bytes32Of(b.taskId),
                                      b.iterations, route))
                /\ route' = [route EXCEPT !.pc = "waitForTransactionReceipt",
                                          !.hash = Len(txs) + 1]
    /\ UNCHANGED <<regVars, panelVars>>

\* publicClient.waitForTransactionReceipt({ hash }) and the answer after it:
\* the receipt's status is logged and not looked at.
POST_waitForTransactionReceipt(timedOut) ==
    /\ route.pc = "waitForTransactionReceipt"
    /\ IF timedOut
       THEN /\ txs[route.hash].status = "pending"
            /\ route' = Respond(CatchStatus("Timed out while waiting for transaction."),
                                "Timed out while waiting for transaction.", 0)
       ELSE /\ txs[route.hash].status # "pending"
            /\ route' = Respond(200, "", route.hash)
    /\ UNCHANGED <<regVars, panelVars, txs>>

----------------------------------------------------------------------------
(* The execution panel: executeComputation *)

STEPS_PER_ASSET == 5

\* isReady of useDataProtector is isConnected, and the dashboard mounts the
\* panel only while a wallet is connected.
isReady == TRUE

\* The whole asset list, computed assets included.
protectedAssets_Unfiltered == AssetList

\* pendingAssets of the dashboard, then the panel's filter on
\* protectedDataAddress: the assets not yet computed, in list order.
protectedAssets == SelectSeq(AssetList, LAMBDA id : assets[id] = "protected")

\* The progress of the current asset alone, whatever its place in the batch.
ProgressAt_PerAsset(i, tenths, n) == (tenths * 100) \div (STEPS_PER_ASSET * 10)

\* ((i * STEPS_PER_ASSET + k) / (n * STEPS_PER_ASSET)) * 100, k given in tenths
ProgressAt(i, tenths, n) ==
    ((i * STEPS_PER_ASSET * 10 + tenths) * 100) \div (n * STEPS_PER_ASSET * 10)

\* disabled of the Execute button
disabled ==
    \/ Len(protectedAssets) = 0
    \/ ~isReady
    \/ executionStep \notin {"idle", "error"}

\* A value JavaScript holds for a field that is not there.
Undefined == [undefined |-> TRUE]

\* obj?.field is truthy: present and not 0.
Truthy(obj, field) == field \in DOMAIN obj /\ obj[field] # 0

\* result?.results?.[0]
FirstResult(result) ==
    IF "results" \in DOMAIN result /\ Len(result.results) > 0
    THEN result.results[1] ELSE Undefined

\* computedResult?.var_95_bps || computedResult?.results?.[0]?.var_95_bps || 1500
varBpsOf(result) ==
    IF Truthy(result, "var_95_bps") THEN result.var_95_bps
    ELSE IF Truthy(FirstResult(result), "var_95_bps")
    THEN FirstResult(result).var_95_bps
    ELSE 1500

\* computedResult?.safe_ltv_bps || computedResult?.results?.[0]?.safe_ltv_bps || 7500
safeLTVOf(result) ==
    IF Truthy(result, "safe_ltv_bps") THEN result.safe_ltv_bps
    ELSE IF Truthy(FirstResult(result), "safe_ltv_bps")
    THEN FirstResult(result).safe_ltv_bps
    ELSE 7500

\* Math.min
Min(a, b) == IF a < b THEN a ELSE b

\* The VaR passed on as it was parsed.
varBpsCapped_Uncapped(varBps) == varBps

\* Math.min(varBps, 9500)
varBpsCapped(varBps) == Min(varBps, 9500)

\* Math.round((varBps / 10000) * asset.value)
varScoreOf(varBps, value) == (varBps * value + 5000) \div 10000

\* The asset of the iteration in progress, and the size of the batch.
Asset(fr) == fr.protectedAssets[fr.i + 1]

BatchSize(fr) == Len(fr.protectedAssets)

\* Entries of the history: an external call, and an error caught by
\* catch (walletErr).
Call(fr, kind) ==
    [run |-> runs, asset |-> Asset(fr), call |-> kind, message |-> ""]

WalletErr(fr, message) ==
    [run |-> runs, asset |-> Asset(fr), call |-> "walletErr", message |-> message]

\* The body of the fetch to the route.
Body(fr) ==
    [ownerAddress |-> address, assetId |-> Asset(fr),
     varScore |-> varBpsCapped(fr.varBps), safeLTV |-> fr.safeLTV,
     taskId |-> fr.taskId, iterations |-> 5000]

\* The locals of one iteration of the loop, before they are assigned.
Iteration(fr, i, pc) ==
    [fr EXCEPT !.pc = pc, !.i = i, !.taskId = "", !.result = Undefined,
               !.varBps = 0, !.safeLTV = 0, !.txHash_ = 0,
               !.response = Undefined]

\* No error counts as a refusal: every failure of the direct transport
\* falls back to the relayed one.
IsRefusal_Never(message) == FALSE

\* walletErr?.message?.includes('User rejected') ||
\* walletErr?.message?.includes('User denied')
IsRefusal(message) ==
    Includes(message, "User rejected") \/ Includes(message, "User denied")

\* catch (err) that sets the error and does not return.
Throw_NoReturn(message) ==
    /\ errorMessage' = <<message>>
    /\ executionStep' = "error"
    /\ UNCHANGED <<frame, progress, currentAssetIndex, assets, completed>>

\* catch (err) around the iteration: the run ends in error.
Throw(message) ==
    /\ errorMessage' = <<message>>
    /\ executionStep' = "error"
    /\ frame' = NoFrame
    /\ UNCHANGED <<progress, currentAssetIndex, assets, completed>>

\* catch (submitErr) that sets the error and does not return.
ThrowSubmit_NoReturn(message) ==
    /\ errorMessage' = <<"On-chain submission failed: ", message>>
    /\ executionStep' = "error"
    /\ UNCHANGED <<frame, progress, currentAssetIndex, assets, completed>>

\* catch (submitErr) around the submission: the run ends in error.
ThrowSubmit(message) ==
    /\ errorMessage' = <<"On-chain submission failed: ", message>>
    /\ executionStep' = "error"
    /\ frame' = NoFrame
    /\ UNCHANGED <<progress, currentAssetIndex, assets, completed>>

\* catch (walletErr) around the direct transport: a refusal of the user is
\* thrown on to catch (submitErr); after any other error walletSucceeded is
\* false and the relayed transport is fetched.
CatchWalletErr(fr, message) ==
    IF IsRefusal(message)
    THEN /\ ThrowSubmit(message)
         /\ log' = Append(log, WalletErr(fr, message))
         /\ UNCHANGED route
    ELSE /\ executionStep' = "confirming"
         /\ progress' = ProgressAt(fr.i, 40, BatchSize(fr))
         /\ log' = log \o <<WalletErr(fr, message), Call(fr, "relayed")>>
         /\ route' = Request("relayed", runs, Asset(fr), Body(fr))
         /\ frame' = [fr EXCEPT !.pc = "fetchRelayed"]
         /\ UNCHANGED <<currentAssetIndex, errorMessage, assets, completed>>

\* From the end of the submission to the next await: the asset is reported
\* through onComputeComplete, which the dashboard answers by marking it
\* computed, and the loop goes on to the next asset or leaves.
Complete(txHash) ==
    LET i == frame.i
        n == BatchSize(frame)
        id == Asset(frame)
        next == Iteration(frame, i + 1, "grantAccess")
    IN  /\ completed' = Append(completed,
              [run |-> runs, assetId |-> id,
               varScore |-> varScoreOf(frame.varBps, AssetValue(id)),
               safeLTV |-> frame.safeLTV, taskId |-> frame.taskId,
               txHash |-> txHash])
        /\ assets' = [assets EXCEPT ![id] = "computed"]
        /\ IF i + 1 < n
           THEN /\ currentAssetIndex' = i + 1
                /\ executionStep' = "granting"
                /\ progress' = ProgressAt(i + 1, 5, n)
                /\ log' = Append(log, Call(next, "grantAccess"))
                /\ frame' = next
           ELSE /\ executionStep' = "complete"
                /\ progress' = 100
                /\ frame' = NoFrame
                /\ UNCHANGED <<currentAssetIndex, log>>
        /\ UNCHANGED errorMessage

configVars == <<gaslessMode, isGaslessEnabled, walletClient>>

\* The click on Execute, up to the first await.
executeComputation ==
    /\ ~disabled
    /\ runs' = runs + 1
    /\ errorMessage' = <<>>
    /\ currentAssetIndex' = 0
    /\ executionStep' = "granting"
    /\ progress' = ProgressAt(0, 5, Len(protectedAssets))
    /\ frame' = [pc |-> "grantAccess", i |-> 0, protectedAssets |-> protectedAssets,
                 gaslessMode |-> gaslessMode, isGaslessEnabled |-> isGaslessEnabled,
                 walletClient |-> walletClient, taskId |-> "", result |-> Undefined,
                 varBps |-> 0, safeLTV |-> 0, txHash_ |-> 0,
                 response |-> Undefined]
    /\ started' = Append(started, [gaslessMode |-> gaslessMode,
                                    isGaslessEnabled |-> isGaslessEnabled,
                                    walletClient |-> walletClient,
                                    protectedAssets |-> protectedAssets,
                                    teeOracle |-> teeOracle])
    /\ log' = Append(log, [run |-> runs + 1, asset |-> protectedAssets[1],
                           call |-> "grantAccess", message |-> ""])
    /\ UNCHANGED <<configVars, assets, completed, regVars, txs, route>>

\* await grantAccess(asset.protectedDataAddress) returns or throws.
grantAccess(ok) ==
    /\ frame.pc = "grantAccess"
    /\ IF ok
       THEN /\ executionStep' = "processing"
            /\ progress' = ProgressAt(frame.i, 15, BatchSize(frame))
            /\ log' = Append(log, Call(frame, "processData"))
            /\ frame' = [frame EXCEPT !.pc = "processData"]
            /\ UNCHANGED <<currentAssetIndex, errorMessage, assets, completed>>
       ELSE Throw("Failed to grant access") /\ UNCHANGED log
    /\ UNCHANGED <<configVars, runs, started, regVars, txs, route>>

\* await processData(asset.protectedDataAddress) returns or throws.
processData(ok, result) ==
    /\ frame.pc = "processData"
    /\ IF ok
       THEN /\ executionStep' = "attesting"
            /\ progress' = ProgressAt(frame.i, 25, BatchSize(frame))
            /\ frame' = [frame EXCEPT !.pc = "attesting", !.taskId = MockTaskId,
                                      !.result = result]
            /\ UNCHANGED <<currentAssetIndex, errorMessage, assets, completed>>
       ELSE Throw("Failed to process data")
    /\ UNCHANGED <<configVars, runs, started, log, regVars, txs, route>>

\* processData of useDataProtector over the endpoint:
\* return { taskId: result.taskId, result: result.deal }
useDataProtector_processData(response) ==
    [taskId |-> response.taskId,
     result |-> IF "deal" \in DOMAIN response THEN response.deal ELSE Undefined]

\* await processData(asset.protectedDataAddress) of useDataProtector over
\* POST /api/iexec/process: the endpoint answers and the hook returns what
\* it makes of the answer, or the fetch fails and the hook throws. The
\* frame keeps the answer as history.
processDataBackend(ok, response) ==
    /\ frame.pc = "processData"
    /\ IF ok
       THEN /\ executionStep' = "attesting"
            /\ progress' = ProgressAt(frame.i, 25, BatchSize(frame))
            /\ frame' = [frame EXCEPT
                            !.pc = "attesting",
                            !.taskId = useDataProtector_processData(response).taskId,
                            !.result = useDataProtector_processData(response).result,
                            !.response = response]
            /\ UNCHANGED <<currentAssetIndex, errorMessage, assets, completed>>
       ELSE Throw("Failed to process data")
    /\ UNCHANGED <<configVars, runs, started, log, regVars, txs, route>>

\* After the attestation delay: the result is parsed, the step becomes
\* saving and the transport is chosen.
attest ==
    /\ frame.pc = "attesting"
    /\ LET fr == [frame EXCEPT !.varBps = varBpsOf(frame.result),
                               !.safeLTV = safeLTVOf(frame.result)]
       IN  IF fr.gaslessMode /\ fr.isGaslessEnabled
           THEN /\ executionStep' = "saving"
                /\ progress' = ProgressAt(fr.i, 32, BatchSize(fr))
                /\ log' = Append(log, Call(fr, "sponsored"))
                /\ route' = Request("sponsored", runs, Asset(fr), Body(fr))
                /\ frame' = [fr EXCEPT !.pc = "fetchSponsored"]
                /\ UNCHANGED <<currentAssetIndex, errorMessage, assets, completed>>
           ELSE IF ~fr.walletClient
           THEN \* if (!walletClient) throw new Error('Wallet not connected')
                CatchWalletErr(fr, "Wallet not connected")
           ELSE /\ executionStep' = "saving"
                /\ progress' = ProgressAt(fr.i, 32, BatchSize(fr))
                /\ frame' = [fr EXCEPT !.pc = "switchChainAsync"]
                /\ UNCHANGED <<currentAssetIndex, errorMessage, assets, completed,
                               log, route>>
    /\ UNCHANGED <<configVars, runs, started, regVars, txs>>

\* await switchChainAsync returns or throws (the throw is only logged); then
\* walletClient.sendTransaction is called.
switchChainAsync(ok) ==
    /\ frame.pc = "switchChainAsync"
    /\ frame' = [frame EXCEPT !.pc = "sendTransaction"]
    /\ log' = Append(log, Call(frame, "direct"))
    /\ UNCHANGED <<executionStep, progress, currentAssetIndex, errorMessage, assets,
                   completed, configVars, runs, started, regVars, txs, route>>

\* await walletClient.sendTransaction returns a hash, or throws.
sendTransaction(outcome) ==
    /\ frame.pc = "sendTransaction"
    /\ IF outcome = "hash"
       THEN /\ txs' = Append(txs,
                        PendingTx(address, address, keccak256(Asset(frame)),
                                  varBpsCapped(frame.varBps), frame.safeLTV,
                                  keccak256(frame.taskId), 5000,
                                  [via |-> "direct", run |-> runs,
                                   asset |-> Asset(frame)]))
            /\ executionStep' = "confirming"
            /\ progress' = ProgressAt(frame.i, 40, BatchSize(frame))
            /\ frame' = [frame EXCEPT !.pc = "waitForTransactionReceipt",
                                      !.txHash_ = Len(txs) + 1]
            /\ UNCHANGED <<currentAssetIndex, errorMessage, assets, log,
                           completed, route>>
       ELSE CatchWalletErr(frame, outcome) /\ UNCHANGED txs
    /\ UNCHANGED <<configVars, runs, started, regVars>>

\* await publicClient.waitForTransactionReceipt that returns the receipt of
\* the mined transaction and never throws while the transaction is pending.
waitForTransactionReceipt_NoTimeout(timedOut) ==
    /\ frame.pc = "waitForTransactionReceipt"
    /\ txs[frame.txHash_].status # "pending"
    /\ IF txs[frame.txHash_].status = "reverted"
       THEN CatchWalletErr(frame, "Transaction reverted on-chain")
       ELSE Complete(frame.txHash_) /\ UNCHANGED route
    /\ UNCHANGED <<configVars, runs, started, regVars, txs>>

\* await publicClient.waitForTransactionReceipt returns the receipt of the
\* mined transaction, or throws while the transaction is still pending.
waitForTransactionReceipt(timedOut) ==
    /\ frame.pc = "waitForTransactionReceipt"
    /\ IF timedOut
       THEN /\ txs[frame.txHash_].status = "pending"
            /\ CatchWalletErr(frame, "Timed out while waiting for transaction.")
       ELSE /\ txs[frame.txHash_].status # "pending"
            /\ IF txs[frame.txHash_].status = "reverted"
               THEN CatchWalletErr(frame, "Transaction reverted on-chain")
               ELSE Complete(frame.txHash_) /\ UNCHANGED route
    /\ UNCHANGED <<configVars, runs, started, regVars, txs>>

\* await fetch('/api/iexec/submit-score') returns the route's response.
fetchResolves ==
    /\ frame.pc \in {"fetchSponsored", "fetchRelayed"}
    /\ route.pc = "responded"
    /\ route' = NoRequest
    /\ IF route.status = 200
       THEN Complete(route.txHash)
       ELSE ThrowSubmit(route.error) /\ UNCHANGED log
    /\ UNCHANGED <<configVars, runs, started, regVars, txs>>

\* await fetch rejects: the request never reached the route.
fetchRejects ==
    /\ frame.pc \in {"fetchSponsored", "fetchRelayed"}
    /\ route.pc = "request"
    /\ route' = NoRequest
    /\ ThrowSubmit("Failed to fetch")
    /\ UNCHANGED <<configVars, runs, started, log, regVars, txs>>

\* The timeout set when a run completes: back to idle after five seconds.
resetAfterComplete ==
    /\ executionStep = "complete"
    /\ executionStep' = "idle"
    /\ progress' = 0
    /\ currentAssetIndex' = 0
    /\ UNCHANGED <<errorMessage, configVars, assets, frame, runs, started, log,
                   completed, regVars, txs, route>>

\* onCheckedChange of the gasless switch. A run reads the panel's settings
\* when it starts, so changes are followed while a run can still start.
onCheckedChange(checked) ==
    /\ gaslessMode' = checked
    /\ UNCHANGED <<executionStep, progress, currentAssetIndex, errorMessage,
                   isGaslessEnabled, walletClient, assets, frame, runs, started,
                   log, completed, regVars, txs, route>>

\* initializeSmartAccount, called by the switch and when a wallet connects.
initializeSmartAccount(created) ==
    /\ walletClient
    /\ ~isGaslessEnabled
    /\ isGaslessEnabled' = created
    /\ UNCHANGED <<executionStep, progress, currentAssetIndex, errorMessage,
                   gaslessMode, walletClient, assets, frame, runs, started,
                   log, completed, regVars, txs, route>>

\* useWalletClient().data becomes undefined, or defined again.
useWalletClient ==
    /\ walletClient' = ~walletClient
    /\ UNCHANGED <<executionStep, progress, currentAssetIndex, errorMessage,
                   gaslessMode, isGaslessEnabled, assets, frame, runs, started,
                   log, completed, regVars, txs, route>>

----------------------------------------------------------------------------
(* The panel, the route, the chain and the registry's owner *)

RunNext ==
    \/ runs < MaxRuns /\ executeComputation
    \/ \E ok \in BOOLEAN : grantAccess(ok)
    \/ \E ok \in BOOLEAN, result \in ComputeResults : processData(ok, result)
    \/ attest
    \/ \E ok \in BOOLEAN : switchChainAsync(ok)
    \/ \E outcome \in {"hash"} \cup WalletErrors : sendTransaction(outcome)
    \/ \E timedOut \in BOOLEAN : waitForTransactionReceipt(timedOut)
    \/ fetchResolves
    \/ fetchRejects
    \/ resetAfterComplete
    \/ runs < MaxRuns /\ \E checked \in BOOLEAN : onCheckedChange(checked)
    \/ runs < MaxRuns /\ \E created \in BOOLEAN : initializeSmartAccount(created)
    \/ runs < MaxRuns /\ useWalletClient
    \/ POST_readContract
    \/ \E rpcOk \in BOOLEAN : POST_writeContract(rpcOk)
    \/ \E timedOut \in BOOLEAN : POST_waitForTransactionReceipt(timedOut)
    \/ \E h \in TxHashes : Mine(h)
    \/ \E newOracle \in {account, address} : setTEEOracle(Admin, newOracle)

SpecRun == Init /\ [][RunNext]_vars

\* Runs started again after an error: the direct transport with the
\* fallback to the route, one result of the computation, no change of the
\* settings or of the oracle.
RerunNext ==
    \/ runs < MaxReruns /\ executeComputation
    \/ \E ok \in BOOLEAN : grantAccess(ok)
    \/ \E ok \in BOOLEAN : processData(ok, [var_95_bps |-> 2000, safe_ltv_bps |-> 7000])
    \/ attest
    \/ switchChainAsync(TRUE)
    \/ \E outcome \in {"hash", "User rejected the request."} : sendTransaction(outcome)
    \/ waitForTransactionReceipt(FALSE)
    \/ fetchResolves
    \/ fetchRejects
    \/ resetAfterComplete
    \/ POST_readContract
    \/ \E rpcOk \in BOOLEAN : POST_writeContract(rpcOk)
    \/ POST_waitForTransactionReceipt(FALSE)
    \/ \E h \in TxHashes : Mine(h)

SpecRerun == Init /\ [][RerunNext]_vars

\* Runs in which every external call can return or throw, started again
\* after an error.
TerminationNext ==
    \/ runs < MaxReruns /\ executeComputation
    \/ \E ok \in BOOLEAN : grantAccess(ok)
    \/ \E ok \in BOOLEAN : processData(ok, [var_95_bps |-> 2000, safe_ltv_bps |-> 7000])
    \/ attest
    \/ \E ok \in BOOLEAN : switchChainAsync(ok)
    \/ \E outcome \in {"hash"} \cup WalletErrors : sendTransaction(outcome)
    \/ \E timedOut \in BOOLEAN : waitForTransactionReceipt(timedOut)
    \/ fetchResolves
    \/ fetchRejects
    \/ resetAfterComplete
    \/ POST_readContract
    \/ \E rpcOk \in BOOLEAN : POST_writeContract(rpcOk)
    \/ \E timedOut \in BOOLEAN : POST_waitForTransactionReceipt(timedOut)
    \/ \E h \in TxHashes : Mine(h)

\* Every await of executeComputation settles (the promise resolves or
\* rejects, the timer of the attestation delay fires) and the route goes on
\* to its response. Nothing is assumed of the user, who may never click
\* again, nor of the chain, which may never mine a transaction.
Settles ==
    /\ WF_vars(\E ok \in BOOLEAN : grantAccess(ok))
    /\ WF_vars(\E ok \in BOOLEAN :
                  processData(ok, [var_95_bps |-> 2000, safe_ltv_bps |-> 7000]))
    /\ WF_vars(attest)
    /\ WF_vars(\E ok \in BOOLEAN : switchChainAsync(ok))
    /\ WF_vars(\E outcome \in {"hash"} \cup WalletErrors : sendTransaction(outcome))
    /\ WF_vars(\E timedOut \in BOOLEAN : waitForTransactionReceipt(timedOut))
    /\ WF_vars(fetchResolves \/ fetchRejects)
    /\ WF_vars(POST_readContract)
    /\ WF_vars(\E rpcOk \in BOOLEAN : POST_writeContract(rpcOk))
    /\ WF_vars(\E timedOut \in BOOLEAN : POST_waitForTransactionReceipt(timedOut))

SpecTermination == Init /\ [][TerminationNext]_vars /\ Settles

\* A run whose computation is the endpoint behind useDataProtector, over
\* the direct transport with the fallback to the route.
BackendNext ==
    \/ runs < MaxRuns /\ executeComputation
    \/ \E ok \in BOOLEAN : grantAccess(ok)
    \/ \E ok \in BOOLEAN, response \in ProcessResponses :
          processDataBackend(ok, response)
    \/ attest
    \/ switchChainAsync(TRUE)
    \/ \E outcome \in {"hash", "Internal JSON-RPC error."} : sendTransaction(outcome)
    \/ waitForTransactionReceipt(FALSE)
    \/ fetchResolves
    \/ fetchRejects
    \/ resetAfterComplete
    \/ POST_readContract
    \/ \E rpcOk \in BOOLEAN : POST_writeContract(rpcOk)
    \/ POST_waitForTransactionReceipt(FALSE)
    \/ \E h \in TxHashes : Mine(h)

SpecBackend == Init /\ [][BackendNext]_vars

\* Result blobs for the parsing alone: each field at top level, under
\* results[0], at both places, at neither, and present with the value 0;
\* an empty results array; one field without the other; no blob at all.
ResultBlobs ==
    ComputeResults \cup
    { [var_95_bps |-> 2000, safe_ltv_bps |-> 7000,
       results |-> <<[var_95_bps |-> 3000, safe_ltv_bps |-> 6500]>>],
      [var_95_bps |-> 0, safe_ltv_bps |-> 0],
      [var_95_bps |-> 0, safe_ltv_bps |-> 0,
       results |-> <<[var_95_bps |-> 3000, safe_ltv_bps |-> 6500]>>],
      [results |-> <<[var_95_bps |-> 0, safe_ltv_bps |-> 0]>>],
      [results |-> <<>>],
      [var_95_bps |-> 2000],
      Undefined }

\* A run up to the choice of the transport, over every result blob.
AttestNext ==
    \/ runs < MaxRuns /\ executeComputation
    \/ \E ok \in BOOLEAN : grantAccess(ok)
    \/ \E ok \in BOOLEAN, result \in ResultBlobs : processData(ok, result)
    \/ attest
    \/ runs < MaxRuns /\ \E checked \in BOOLEAN : onCheckedChange(checked)
    \/ runs < MaxRuns /\ \E created \in BOOLEAN : initializeSmartAccount(created)
    \/ runs < MaxRuns /\ useWalletClient

SpecAttest == Init /\ [][AttestNext]_vars

----------------------------------------------------------------------------
(* Shorthands of the properties *)

\* The call left storage, the oracle identity and the event log untouched.
NoEffect(tx) ==
    /\ tx.scores = assetScores
    /\ tx.oracle = teeOracle
    /\ tx.logs = <<>>

----------------------------------------------------------------------------
(* C1 *)

----------------------------------------------------------------------------
(* C2 *)

InRange(varScore, safeLTV) == varScore <= MAX_LTV_BPS /\ safeLTV <= MAX_LTV_BPS

\* C2: in every reachable state no stored record has varScore > 10000 or
\* safeLTV > 10000; and a submitRiskScore with an out-of-range varScore or
\* safeLTV is rejected and leaves every record (the prior record of its key
\* included) unchanged: with InvalidVaRScore / InvalidLTV when the caller is
\* the oracle (a caller that is not fails onlyTEE first, as in C1).
C2_StoredInRange ==
    /\ \A k \in Keys : InRange(assetScores[k].varScore, assetScores[k].safeLTV)
    /\ \A sender \in Addresses, owner \in Owners, assetId \in AssetIds,
          p \in ScorePairs, teeTaskId \in TaskIds, iterations \in IterationInputs :
          ~InRange(p[1], p[2]) =>
              LET tx == SubmitResult(sender, owner, assetId, p[1], p[2],
                                     teeTaskId, iterations)
              IN  /\ tx.status # "success"
                  /\ NoEffect(tx)
                  /\ sender = teeOracle =>
                        tx.status = IF p[1] > MAX_LTV_BPS THEN "InvalidVaRScore"
                                    ELSE "InvalidLTV"

\* An out-of-range safeLTV was just rejected while both keys hold a record,
\* one of them on the ceiling.
C2_Witness ==
    /\ receipt.fn = "submitRiskScore"
    /\ receipt.status = "InvalidLTV"
    /\ \A k \in Keys : assetScores[k].timestamp # 0
    /\ \E k \in Keys : assetScores[k].safeLTV = MAX_LTV_BPS

----------------------------------------------------------------------------
(* C3 *)

HasBadTuple(scores) ==
    \E i \in 1..Len(scores) : ~InRange(scores[i].varScore, scores[i].safeLTV)

\* C3: submitBulkRiskScores is all-or-nothing. In every reachable state a
\* batch with an out-of-range tuple at any position is rejected, and after
\* the call every key holds the record it held before, the keys of the
\* valid tuples in front of the bad one included, and no event remains.
C3_BulkAllOrNothing ==
    \A sender \in Addresses, owner \in Owners, scores \in DeepBulkInputs,
       teeTaskId \in TaskIds, iterations \in IterationInputs :
       HasBadTuple(scores) =>
           LET tx == BulkResult(sender, owner, scores, teeTaskId, iterations)
           IN  /\ tx.status # "success"
               /\ NoEffect(tx)

\* A batch was just rejected for an out-of-range tuple, in a state where a
\* three-tuple batch with the bad tuple last (and one with it in the middle)
\* has the loop write both keys before it reverts.
C3_Witness ==
    /\ receipt.fn = "submitBulkRiskScores"
    /\ receipt.status \in {"InvalidVaRScore", "InvalidLTV"}
    /\ receipt.logs = <<>>
    /\ \E k \in Keys : assetScores[k] = ZeroScore
    /\ \E scores \in DeepBulkInputs :
          /\ Len(scores) = 3
          /\ ~HasBadTuple(SubSeq(scores, 1, 2))
          /\ HasBadTuple(scores)
          /\ LET raw == submitBulkRiskScoresBody(teeOracle, User, scores,
                                                 "task1", MIN_ITERATIONS)
             IN  /\ raw.status \in {"InvalidVaRScore", "InvalidLTV"}
                 /\ \A k \in Keys : raw.scores[k] # assetScores[k]
                 /\ Len(raw.logs) = 2
    /\ \E scores \in DeepBulkInputs :
          /\ Len(scores) = 3
          /\ HasBadTuple(SubSeq(scores, 2, 2))
          /\ ~HasBadTuple(SubSeq(scores, 1, 1)) /\ ~HasBadTuple(SubSeq(scores, 3, 3))
          /\ submitBulkRiskScoresBody(teeOracle, User, scores, "task1",
                                      MIN_ITERATIONS).scores # assetScores

----------------------------------------------------------------------------
(* C4 *)

\* C4: isScoreValid is false for a key no write ever reached; for a key last
\* written at time t it is true at every time from t to
\* t + SCORE_VALIDITY_PERIOD inclusive and false at every later time, until
\* the next successful write to the key.
C4_ValidityWindow ==
    \A k \in Keys :
        LET t == lastWrite[k].at
        IN  isScoreValid(k[1], k[2]) <=>
                (t # 0 /\ t <= now /\ now <= t + SCORE_VALIDITY_PERIOD)

\* One key is in the last second of its period and valid, the other is one
\* second past it and invalid.
C4_Witness ==
    \E k1, k2 \in Keys :
        /\ lastWrite[k1].at # 0 /\ now = lastWrite[k1].at + SCORE_VALIDITY_PERIOD
        /\ isScoreValid(k1[1], k1[2])
        /\ lastWrite[k2].at # 0 /\ now = lastWrite[k2].at + SCORE_VALIDITY_PERIOD + 1
        /\ ~isScoreValid(k2[1], k2[2])

----------------------------------------------------------------------------
(* C5 *)

ValidBatches == { scores \in BulkInputs : Len(scores) > 0 /\ ~HasBadTuple(scores) }

\* C5: in every reachable state exactly the current teeOracle can write: a
\* submission with valid arguments succeeds if and only if its sender is
\* the current teeOracle; and in the state a successful setTEEOracle leaves,
\* the new identity is the oracle and is accepted and the old one (when it
\* differs) is rejected with UnauthorizedOracle, by both functions.
C5_OnlyCurrentOracleWrites ==
    /\ \A sender \in Addresses, owner \in Owners, teeTaskId \in TaskIds :
          /\ \A assetId \in AssetIds, p \in ScorePairs :
                InRange(p[1], p[2]) =>
                    (SubmitResult(sender, owner, assetId, p[1], p[2], teeTaskId,
                                  MIN_ITERATIONS).status = "success"
                       <=> sender = teeOracle)
          /\ \A scores \in ValidBatches :
                (BulkResult(sender, owner, scores, teeTaskId,
                            MIN_ITERATIONS).status = "success"
                   <=> sender = teeOracle)
    /\ (receipt.fn = "setTEEOracle" /\ receipt.status = "success") =>
          LET e == receipt.logs[1]
          IN  /\ teeOracle = e.newOracle
              /\ \A owner \in Owners, assetId \in AssetIds, teeTaskId \in TaskIds :
                    /\ SubmitResult(e.newOracle, owner, assetId, 1500, 7200,
                                    teeTaskId, MIN_ITERATIONS).status = "success"
                    /\ e.oldOracle # e.newOracle =>
                          SubmitResult(e.oldOracle, owner, assetId, 1500, 7200,
                                       teeTaskId, MIN_ITERATIONS).status
                              = "UnauthorizedOracle"
              /\ \A owner \in Owners, scores \in ValidBatches, teeTaskId \in TaskIds :
                    /\ BulkResult(e.newOracle, owner, scores, teeTaskId,
                                  MIN_ITERATIONS).status = "success"
                    /\ e.oldOracle # e.newOracle =>
                          BulkResult(e.oldOracle, owner, scores, teeTaskId,
                                     MIN_ITERATIONS).status = "UnauthorizedOracle"

\* The owner has just rotated the oracle from OracleA to OracleB.
C5_Witness ==
    /\ receipt.fn = "setTEEOracle"
    /\ receipt.status = "success"
    /\ receipt.logs = <<TEEOracleUpdated(OracleA, OracleB)>>
    /\ teeOracle = OracleB
    /\ \E k \in Keys : assetScores[k] # ZeroScore

----------------------------------------------------------------------------
(* C6 *)

\* By the history of mined writes: the key has a record and it has not
\* expired; it has one and it has expired.
Live(k) ==
    lastWrite[k].at # 0 /\ now <= lastWrite[k].at + SCORE_VALIDITY_PERIOD

Expired(k) ==
    lastWrite[k].at # 0 /\ now > lastWrite[k].at + SCORE_VALIDITY_PERIOD

ExpiredError == [ok |-> FALSE, error |-> "ScoreExpired"]

\* C6 as claimed: for an existing, unexpired record calculateMaxBorrow
\* returns collateralValue * safeLTV / 10000 for every collateralValue, and
\* for an absent or expired record it fails with ScoreExpired.
C6_Original ==
    \A k \in Keys, V \in CollateralValues :
        LET r == calculateMaxBorrow(k[1], k[2], V)
        IN  IF Live(k)
            THEN r.ok /\ r.value = (V * lastWrite[k].safeLTV) \div MAX_LTV_BPS
            ELSE r = ExpiredError

\* C6 (amended): for an existing, unexpired record calculateMaxBorrow returns
\* collateralValue * safeLTV / 10000 (integer division) for every
\* collateralValue whose product with safeLTV fits the unsigned word, and
\* reverts with an arithmetic panic for every larger one; for an absent or
\* expired record it fails with ScoreExpired and never returns 0.
C6_MaxBorrow ==
    \A k \in Keys, V \in CollateralValues :
        LET r == calculateMaxBorrow(k[1], k[2], V)
            ltv == lastWrite[k].safeLTV
        IN  IF ~Live(k) THEN r = ExpiredError
            ELSE IF ltv = 0 \/ V <= UINT_MAX \div ltv
                 THEN r.ok /\ r.value = (V * ltv) \div MAX_LTV_BPS
            ELSE r = [ok |-> FALSE, error |-> "Panic(0x11)"]

\* A live record of safeLTV 7200 lends 720 against 1000 and against
\* 1001 (the quotient is rounded down), and the other key's record has expired and fails with ScoreExpired.
C6_Witness ==
    \E k1, k2 \in Keys :
        /\ Live(k1) /\ lastWrite[k1].safeLTV = 7200
        /\ calculateMaxBorrow(k1[1], k1[2], 1000) = [ok |-> TRUE, value |-> 720]
        /\ calculateMaxBorrow(k1[1], k1[2], 1001) = [ok |-> TRUE, value |-> 720]
        /\ Expired(k2)
        /\ calculateMaxBorrow(k2[1], k2[2], 1000) = ExpiredError

----------------------------------------------------------------------------
(* C7 *)

\* C7: getVaRScore and getSafeLTV return what the last successful write to
\* the key stored while that record has not expired (at the time of the
\* write itself too), and return 0 when the key was never written or its
\* record has expired.
C7_PassiveGetters ==
    \A k \in Keys :
        IF Live(k)
        THEN /\ getVaRScore(k[1], k[2]) = lastWrite[k].varScore
             /\ getSafeLTV(k[1], k[2]) = lastWrite[k].safeLTV
        ELSE /\ getVaRScore(k[1], k[2]) = 0
             /\ getSafeLTV(k[1], k[2]) = 0

\* A write of (1500, 7200) is read back in the block that stored it, while
\* the other key's record has expired and reads 0.
C7_Witness ==
    \E k1, k2 \in Keys :
        /\ receipt.status = "success"
        /\ receipt.fn \in {"submitRiskScore", "submitBulkRiskScores"}
        /\ lastWrite[k1].at = now
        /\ getVaRScore(k1[1], k1[2]) = 1500 /\ getSafeLTV(k1[1], k1[2]) = 7200
        /\ Expired(k2)
        /\ getVaRScore(k2[1], k2[2]) = 0 /\ getSafeLTV(k2[1], k2[2]) = 0

----------------------------------------------------------------------------
(* C8 *)

NeverWrittenKey(k) == lastWrite[k].at = 0

\* What the validity-checking reads answer for a key.
CheckedReads(k) ==
    [getVaRScore |-> getVaRScore(k[1], k[2]),
     getSafeLTV |-> getSafeLTV(k[1], k[2]),
     isScoreValid |-> isScoreValid(k[1], k[2]),
     calculateMaxBorrow |->
         [V \in CollateralValues |-> calculateMaxBorrow(k[1], k[2], V)]]

\* What the reads of the stored struct answer for a key.
RawReads(k) ==
    [getFullRiskScore |-> getFullRiskScore(k[1], k[2]),
     assetScores |-> assetScoresGetter(k[1], k[2]),
     hasScore |-> useRiskScore(k[1], k[2]).hasScore]

AbsentChecked ==
    [getVaRScore |-> 0, getSafeLTV |-> 0, isScoreValid |-> FALSE,
     calculateMaxBorrow |-> [V \in CollateralValues |-> ExpiredError]]

AbsentRaw ==
    [getFullRiskScore |-> ZeroScore,
     assetScores |-> <<0, 0, 0, ZeroBytes32, 0>>,
     hasScore |-> FALSE]

----------------------------------------------------------------------------
(* C9: reported Complete only if the write finalized *)

\* The write behind a report: the transaction whose hash onComputeComplete
\* was given is a write of that run for that asset, mined with success.
Finalized(c) ==
    /\ c.txHash \in DOMAIN txs
    /\ txs[c.txHash].run = c.run
    /\ txs[c.txHash].asset = c.assetId
    /\ txs[c.txHash].status = "success"

\* C9: onComputeComplete is invoked for an asset only if the registry write
\* for that asset was mined and did not revert, whichever transport made it.
C9_CompleteOnlyIfFinalized ==
    \A j \in DOMAIN completed : Finalized(completed[j])

\* The part of C9 the direct transport keeps: a report whose transaction the
\* wallet sent is a report of a finalized write.
C9_DirectFinalized ==
    \A j \in DOMAIN completed :
        LET c == completed[j]
        IN  (c.txHash \in DOMAIN txs /\ txs[c.txHash].via = "direct")
                => Finalized(c)

----------------------------------------------------------------------------
(* C10: the fallback after a failure of the direct transport *)

\* The entries of the history that run r made for asset a, of one kind.
Entries(r, a, kind) ==
    { j \in DOMAIN log :
        log[j].run = r /\ log[j].asset = a /\ log[j].call = kind }

\* The error is an explicit refusal of the user.
UserRefusal(message) ==
    Includes(message, "User rejected") \/ Includes(message, "User denied")

\* Run r was started with gasless mode off.
NonGasless(r) == ~started[r].gaslessMode

\* C10: in a run started with gasless mode off, a failure of the direct
\* transport for an asset that is not a refusal of the user is followed at
\* once by a relayed attempt for that asset, and that asset never has a
\* second one; a failure that is a refusal is followed by no relayed attempt
\* for the asset and by no further call of the run, which is in error.
C10_FallbackPolicy ==
    \A j \in DOMAIN log :
        LET e == log[j]
        IN  (e.call = "walletErr" /\ NonGasless(e.run)) =>
                IF UserRefusal(e.message)
                THEN /\ Entries(e.run, e.asset, "relayed") = {}
                     /\ \A k \in DOMAIN log : k > j => log[k].run # e.run
                     /\ e.run = runs =>
                            executionStep = "error" /\ frame.pc = "none"
                ELSE Entries(e.run, e.asset, "relayed") = {j + 1}

\* One run with gasless mode off has met both kinds of failure: an error
\* that is no refusal for its first asset, with the relayed attempt behind
\* it, and a refusal for its second, which ended the run in error.
C10_Witness ==
    \E j, k \in DOMAIN log :
        /\ j < k
        /\ log[j].run = log[k].run
        /\ NonGasless(log[j].run)
        /\ log[j].call = "walletErr" /\ ~UserRefusal(log[j].message)
        /\ log[j + 1].call = "relayed" /\ log[j + 1].asset = log[j].asset
        /\ log[k].call = "walletErr" /\ UserRefusal(log[k].message)
        /\ log[k].asset # log[j].asset
        /\ executionStep = "error"

----------------------------------------------------------------------------
(* C11: gasless mode uses the sponsored transport only *)

\* Run r was started with gasless mode requested.
GaslessRequested(r) == started[r].gaslessMode

\* C11: in a run started with gasless mode requested, whether or not the
\* smart account was initialized, every write attempt is a sponsored one:
\* the wallet is never asked to send, no error of the direct transport is
\* caught, the relayed transport is never fetched, and no asset has a
\* second attempt.
C11_GaslessOnlySponsored ==
    \A j \in DOMAIN log :
        LET e == log[j]
        IN  GaslessRequested(e.run) =>
                /\ e.call \notin {"direct", "relayed", "walletErr"}
                /\ e.call = "sponsored" =>
                       Entries(e.run, e.asset, "sponsored") = {j}

\* The part of C11 the panel keeps: a run started with gasless mode
\* requested and the smart account initialized attempts only sponsored
\* writes, one for each asset.
C11_InitializedOnlySponsored ==
    \A j \in DOMAIN log :
        LET e == log[j]
        IN  (GaslessRequested(e.run) /\ started[e.run].isGaslessEnabled) =>
                /\ e.call \notin {"direct", "relayed", "walletErr"}
                /\ e.call = "sponsored" =>
                       Entries(e.run, e.asset, "sponsored") = {j}

----------------------------------------------------------------------------
(* C12: the order of the steps *)

\* The order of the steps of one asset.
StepOrder == <<"idle", "granting", "processing", "attesting", "saving",
               "confirming", "complete">>

\* Step t comes right after step s in the order.
FollowsInOrder(s, t) ==
    \E j \in 1..(Len(StepOrder) - 1) : StepOrder[j] = s /\ StepOrder[j + 1] = t

\* This step reports an asset through onComputeComplete.
Reports == completed' # completed

\* A write of the run in progress for its current asset has been broadcast.
WriteSubmitted ==
    \E h \in DOMAIN txs' :
        txs'[h].run = runs /\ txs'[h].asset = Asset(frame)

\* C12: the step moves only to the next step of the order idle, granting,
\* processing, attesting, saving, confirming, complete (the asset being
\* complete when it is reported, after which the next asset starts at
\* granting), or to error from a step between granting and confirming, or
\* from error or complete back to the start; an asset is reported only
\* from confirming, and confirming is entered only once the write has been
\* broadcast.
C12_StepOrder ==
    [][ /\ executionStep' # executionStep =>
             \/ FollowsInOrder(executionStep, executionStep') /\ ~Reports
             \/ executionStep = "confirming" /\ Reports
                  /\ executionStep' \in {"granting", "complete"}
             \/ executionStep' = "error"
                  /\ executionStep \notin {"idle", "complete", "error"}
             \/ executionStep = "error" /\ executionStep' = "granting"
             \/ executionStep = "complete" /\ executionStep' = "idle"
        /\ Reports => executionStep = "confirming"
        /\ (executionStep' = "confirming" /\ executionStep # "confirming")
              => WriteSubmitted
      ]_vars

\* The part of C12 every transport keeps: the steps up to attesting follow
\* the order.
C12_OrderUpToAttesting ==
    [][ (executionStep' # executionStep /\ executionStep' # "error"
           /\ executionStep \in {"idle", "granting", "processing"})
          => FollowsInOrder(executionStep, executionStep')
      ]_vars

----------------------------------------------------------------------------
(* C13: a fatal failure halts the run *)

\* The entries of the history that run r made.
EntriesOfRun(r) == { j \in DOMAIN log : log[j].run = r }

\* The asset run r was last working on.
LastAsset(r) ==
    log[CHOOSE j \in EntriesOfRun(r) : \A k \in EntriesOfRun(r) : k <= j].asset

\* The position of an asset in the batch of run r.
PositionIn(r, id) ==
    CHOOSE p \in DOMAIN started[r].protectedAssets :
        started[r].protectedAssets[p] = id

\* The reports run r made for an asset.
ReportsOf(r, id) ==
    { j \in DOMAIN completed : completed[j].run = r /\ completed[j].assetId = id }

\* Run r has ended in error: it is the last run started and the panel shows
\* error, or a later run was started after it left an asset unreported.
Halted(r) ==
    /\ r \in DOMAIN started
    /\ ReportsOf(r, LastAsset(r)) = {}
    /\ \/ r = runs /\ executionStep = "error"
       \/ r < runs

\* C13: once a run has ended in error at an asset, the run is over (no
\* activation is left and no request of it is in flight), every asset
\* before that one is reported once, with the hash of a broadcast
\* transaction, and marked computed, the failed asset is not reported, and
\* the history holds no call and the chain no transaction of that run for
\* any asset after it.
C13_FailureHalts ==
    \A r \in DOMAIN started :
        Halted(r) =>
            LET batch == started[r].protectedAssets
                k == PositionIn(r, LastAsset(r))
            IN  /\ r = runs => frame = NoFrame /\ route = NoRequest
                /\ \A p \in DOMAIN batch :
                      /\ p < k =>
                            /\ Cardinality(ReportsOf(r, batch[p])) = 1
                            /\ \A j \in ReportsOf(r, batch[p]) :
                                  completed[j].txHash \in DOMAIN txs
                            /\ assets[batch[p]] = "computed"
                      /\ p > k =>
                            /\ \A j \in EntriesOfRun(r) : log[j].asset # batch[p]
                            /\ \A h \in DOMAIN txs :
                                  txs[h].run = r => txs[h].asset # batch[p]
                            /\ ReportsOf(r, batch[p]) = {}

\* A run of two assets has reported the first and ended in error at the
\* second.
C13_Witness ==
    /\ runs = 1
    /\ executionStep = "error"
    /\ Len(started[1].protectedAssets) = 2
    /\ Len(completed) = 1
    /\ completed[1].assetId = started[1].protectedAssets[1]
    /\ LastAsset(1) = started[1].protectedAssets[2]

----------------------------------------------------------------------------
(* C14: the outcome of each asset when a run ends *)

\* Run r is over: a later run was started, or it is the last run started and
\* no activation is left.
Ended(r) == r \in DOMAIN started /\ (r < runs \/ frame = NoFrame)

\* The asset was reported by run r.
EndedComplete(r, id) == ReportsOf(r, id) # {}

\* Run r ended in error while working on the asset.
EndedError(r, id) == Halted(r) /\ LastAsset(r) = id

\* C14: when a run is over, each asset of its batch, those after a failed
\* asset included, was either reported or is the one the run ended in
\* error at, and not both.
C14_EveryAssetHasOutcome ==
    \A r \in DOMAIN started :
        Ended(r) =>
            \A p \in DOMAIN started[r].protectedAssets :
                LET id == started[r].protectedAssets[p]
                IN  EndedComplete(r, id) # EndedError(r, id)

\* The part of C14 the panel keeps: no asset is both reported and the one
\* the run failed at, and each asset the run got to has one of the two
\* outcomes once the run is over.
C14_AttemptedAssetsHaveOutcome ==
    \A r \in DOMAIN started :
        Ended(r) =>
            \A p \in DOMAIN started[r].protectedAssets :
                LET id == started[r].protectedAssets[p]
                IN  /\ ~(EndedComplete(r, id) /\ EndedError(r, id))
                    /\ (\E j \in EntriesOfRun(r) : log[j].asset = id)
                          => (EndedComplete(r, id) \/ EndedError(r, id))

----------------------------------------------------------------------------
(* C15: oracle verification before any computation *)

\* Run r writes through the oracle route from its first asset on: it was
\* started in gasless mode with the smart account initialized (sponsored),
\* or without a wallet client (relayed).
UsesOracleRoute(r) ==
    \/ started[r].gaslessMode /\ started[r].isGaslessEnabled
    \/ ~started[r].walletClient

\* The calls that invoke the computation.
ComputationCalls == {"grantAccess", "processData"}

\* C15: a run that uses the sponsored or the relayed transport and starts
\* while the registry's oracle is not the route's account aborts before
\* any computation: its history holds no grantAccess and no processData.
C15_VerifiedBeforeComputation ==
    \A r \in DOMAIN started :
        (UsesOracleRoute(r) /\ started[r].teeOracle # account) =>
            \A j \in EntriesOfRun(r) : log[j].call \notin ComputationCalls

----------------------------------------------------------------------------
(* C16: registry rejections are surfaced, not retried *)

\* The errors the registry rejects a write with.
RegistryErrors ==
    {"UnauthorizedOracle", "InvalidVaRScore", "InvalidLTV", "InsufficientIterations"}

\* C16: a rejection of a write by the registry ends the asset in error and
\* is not retried on another transport. When the panel has caught the
\* revert of its direct transaction, the asset has no relayed attempt and
\* no report and the run is in error; when the route has answered a
\* request with the registry's error, the asset has no report.
C16_RejectionSurfaced ==
    /\ \A j \in DOMAIN log :
          LET e == log[j]
          IN  (e.call = "walletErr" /\ e.message = "Transaction reverted on-chain") =>
                  /\ Entries(e.run, e.asset, "relayed") = {}
                  /\ ReportsOf(e.run, e.asset) = {}
                  /\ e.run = runs => executionStep = "error"
    /\ (route.pc = "responded" /\ route.error \in RegistryErrors) =>
          ReportsOf(route.run, route.asset) = {}

----------------------------------------------------------------------------
(* C17: a write that finalizes as reverted *)

\* C17: a transaction that was broadcast and then mined as reverted is never
\* the transaction of a report, its run is in error once it is over, and
\* when the panel has caught the revert of its direct transaction no
\* relayed attempt replaces it.
C17_RevertedEndsInError ==
    \A h \in DOMAIN txs :
        LET t == txs[h]
        IN  t.status = "reverted" =>
                /\ \A j \in DOMAIN completed : completed[j].txHash # h
                /\ (t.run = runs /\ frame = NoFrame) => executionStep = "error"
                /\ (\E j \in Entries(t.run, t.asset, "walletErr") :
                        log[j].message = "Transaction reverted on-chain")
                      => Entries(t.run, t.asset, "relayed") = {}

----------------------------------------------------------------------------
(* C18: the cap on varScore and the iterations of every write *)

\* The values varBpsCapped can give for the results of the computation.
CappedValues == { Min(varBpsOf(result), 9500) : result \in ComputeResults }

\* C18: every transaction the panel or the route has broadcast for a run,
\* and every request the panel has sent to the route, carries the parsed
\* VaR clamped with min(v, 9500), so at most 9500, and 5000 iterations.
C18_WritesCapped ==
    /\ \A h \in DOMAIN txs :
          /\ txs[h].varScore <= 9500
          /\ txs[h].varScore \in CappedValues
          /\ txs[h].iterations = 5000
    /\ route.pc # "idle" =>
          /\ route.body.varScore <= 9500
          /\ route.body.varScore \in CappedValues
          /\ route.body.iterations = 5000

\* A result with a VaR above the cap has been written at 9500 by the wallet
\* and through the route.
C18_Witness ==
    \E h, g \in DOMAIN txs :
        /\ txs[h].via = "direct" /\ txs[h].varScore = 9500
        /\ txs[g].via = "relayed" /\ txs[g].varScore = 9500
        /\ 9500 < varBpsOf([results |-> <<[var_95_bps |-> 12000,
                                          safe_ltv_bps |-> 6000]>>])

----------------------------------------------------------------------------
(* C19 *)

----------------------------------------------------------------------------
(* C20 *)

\* C20: in every reachable state setTEEOracle succeeds exactly when its
\* sender is the contract owner and the new identity is not zero. Any other
\* sender, the current oracle included, is rejected by onlyOwner, and the
\* owner's call with the zero identity is rejected with ZeroAddress; a
\* rejected call leaves the oracle, the records and the log unchanged. A
\* successful call installs the new identity, touches no record, and emits
\* exactly one TEEOracleUpdated naming the old and the new identity.
C20_RotateOracle ==
    \A sender \in Addresses, newOracle \in Addresses \cup {ZeroAddress} :
        LET tx == RotateResult(sender, newOracle)
        IN  /\ tx.status = "success" <=> (sender = _owner /\ newOracle # ZeroAddress)
            /\ sender # _owner => tx.status = "OwnableUnauthorizedAccount"
            /\ (sender = _owner /\ newOracle = ZeroAddress) => tx.status = "ZeroAddress"
            /\ tx.status # "success" => NoEffect(tx)
            /\ tx.status = "success" =>
                  /\ tx.oracle = newOracle
                  /\ tx.scores = assetScores
                  /\ tx.logs = <<TEEOracleUpdated(teeOracle, newOracle)>>

\* The owner's rotation has succeeded and left one event naming the old and
\* the new identity; the oracle it installed is not the owner, so that the
\* current oracle is one of the senders onlyOwner rejects.
C20_Witness ==
    /\ receipt.fn = "setTEEOracle"
    /\ receipt.status = "success"
    /\ Len(receipt.logs) = 1
    /\ receipt.logs[1].event = "TEEOracleUpdated"
    /\ receipt.logs[1].oldOracle # receipt.logs[1].newOracle
    /\ receipt.logs[1].newOracle = teeOracle
    /\ teeOracle # _owner
    /\ RotateResult(teeOracle, OracleA).status = "OwnableUnauthorizedAccount"

----------------------------------------------------------------------------
(* C21 *)

\* The last tuple of the batch for assetId.
LastTupleFor(scores, assetId) ==
    LET i == CHOOSE i \in 1..Len(scores) :
                 /\ scores[i].assetId = assetId
                 /\ \A j \in (i + 1)..Len(scores) : scores[j].assetId # assetId
    IN  scores[i]

InBatch(scores, assetId) == \E i \in 1..Len(scores) : scores[i].assetId = assetId

\* C21: in every reachable state a non-empty batch of n in-range tuples sent
\* by the oracle with enough iterations succeeds; it emits n RiskScoreUpdated
\* events, one per tuple in tuple order, followed by one BulkScoresSubmitted
\* with count n; every key (owner, assetId) of the batch then holds its
\* tuple (the last one of the batch for that assetId) with the block's
\* timestamp and the call's teeTaskId and iterations, and every other key
\* and the oracle are unchanged. The records a mined batch wrote share one
\* timestamp.
C21_BulkSuccess ==
    /\ \A owner \in Owners, scores \in DeepBulkInputs, teeTaskId \in TaskIds,
          iterations \in {MIN_ITERATIONS, MIN_ITERATIONS + 1} :
          (Len(scores) > 0 /\ ~HasBadTuple(scores)) =>
              LET tx == BulkResult(teeOracle, owner, scores, teeTaskId, iterations)
                  n  == Len(scores)
              IN  /\ tx.status = "success"
                  /\ tx.oracle = teeOracle
                  /\ Len(tx.logs) = n + 1
                  /\ \A i \in 1..n :
                        tx.logs[i] = RiskScoreUpdated(owner, scores[i].assetId,
                                                      scores[i].varScore,
                                                      scores[i].safeLTV, teeTaskId)
                  /\ tx.logs[n + 1] = BulkScoresSubmitted(owner, n, teeTaskId)
                  /\ \A k \in Keys :
                        tx.scores[k] =
                            IF k[1] = owner /\ InBatch(scores, k[2])
                            THEN LET s == LastTupleFor(scores, k[2])
                                 IN  [varScore |-> s.varScore, safeLTV |-> s.safeLTV,
                                      timestamp |-> now, teeTaskId |-> teeTaskId,
                                      iterations |-> iterations]
                            ELSE assetScores[k]
    /\ (receipt.fn = "submitBulkRiskScores" /\ receipt.status = "success") =>
          LET n == Len(receipt.logs) - 1
          IN  /\ n >= 1
              /\ receipt.logs[n + 1].event = "BulkScoresSubmitted"
              /\ receipt.logs[n + 1].count = n
              /\ \A i, j \in 1..n :
                    LET ki == <<receipt.logs[i].owner, receipt.logs[i].assetId>>
                        kj == <<receipt.logs[j].owner, receipt.logs[j].assetId>>
                    IN  /\ receipt.logs[i].event = "RiskScoreUpdated"
                        /\ assetScores[ki].timestamp = assetScores[kj].timestamp
                        /\ assetScores[ki].timestamp = lastWrite[ki].at
                        /\ assetScores[ki].teeTaskId = receipt.logs[n + 1].teeTaskId
                        /\ assetScores[ki].iterations = assetScores[kj].iterations

\* A batch of three tuples was just mined over older records: asset1 twice
\* with different values and asset2 once; four events, and asset1 holds the
\* later of its two tuples.
C21_Witness ==
    /\ receipt.fn = "submitBulkRiskScores"
    /\ receipt.status = "success"
    /\ Len(receipt.logs) = 4
    /\ receipt.logs[4] = BulkScoresSubmitted(User, 3, "task1")
    /\ receipt.logs[1].assetId = "asset1" /\ receipt.logs[1].varScore = 1500
    /\ receipt.logs[2].assetId = "asset2"
    /\ receipt.logs[3].assetId = "asset1" /\ receipt.logs[3].varScore = MAX_LTV_BPS
    /\ assetScores[<<User, "asset1">>].varScore = MAX_LTV_BPS
    /\ assetScores[<<User, "asset1">>].timestamp > GenesisTime
    /\ assetScores[<<User, "asset1">>].timestamp
          = assetScores[<<User, "asset2">>].timestamp

----------------------------------------------------------------------------
(* C22 *)

\* C22: in every reachable state submitBulkRiskScores sent by the current
\* oracle with an empty batch is rejected with EmptyBulkData, whether the
\* iterations are zero, one short of MIN_ITERATIONS or enough, and leaves
\* every record and the oracle unchanged and no event.
C22_EmptyBatchRejected ==
    /\ \A owner \in Addresses, teeTaskId \in TaskIds,
          iterations \in IterationInputs \cup {0} :
          LET tx == BulkResult(teeOracle, owner, <<>>, teeTaskId, iterations)
          IN  /\ tx.status = "EmptyBulkData"
              /\ NoEffect(tx)
    /\ receipt.status = "EmptyBulkData" =>
          /\ receipt.fn = "submitBulkRiskScores"
          /\ receipt.logs = <<>>

\* The oracle's empty batch was just rejected over stored records.
C22_Witness ==
    /\ receipt.fn = "submitBulkRiskScores"
    /\ receipt.status = "EmptyBulkData"
    /\ \A k \in Keys : assetScores[k] # ZeroScore
    /\ \A k \in Keys : assetScores[k].timestamp = lastWrite[k].at

----------------------------------------------------------------------------
(* C23 *)

\* C23: the timestamp of a record is the block time of the write. In every
\* reachable state every stored timestamp is at most the current time and
\* is the time at which the last RiskScoreUpdated of its key was mined; and
\* whatever arguments a successful submitRiskScore or submitBulkRiskScores
\* is given, every record it writes has the current time as timestamp.
C23_TimestampByRegistry ==
    /\ \A k \in Keys :
          /\ assetScores[k].timestamp <= now
          /\ assetScores[k].timestamp = lastWrite[k].at
    /\ \A sender \in Addresses, owner \in Owners, assetId \in AssetIds,
          p \in ScorePairs, teeTaskId \in TaskIds, iterations \in IterationInputs :
          LET tx == SubmitResult(sender, owner, assetId, p[1], p[2],
                                 teeTaskId, iterations)
          IN  tx.status = "success" =>
                  tx.scores[<<owner, assetId>>].timestamp = now
    /\ \A sender \in Addresses, owner \in Owners, scores \in BulkInputs,
          teeTaskId \in TaskIds, iterations \in IterationInputs :
          LET tx == BulkResult(sender, owner, scores, teeTaskId, iterations)
          IN  tx.status = "success" =>
                  \A i \in 1..Len(scores) :
                      tx.scores[<<owner, scores[i].assetId>>].timestamp = now

\* One record was written at an earlier time than the other, which was
\* written just now, after the clock had advanced.
C23_Witness ==
    /\ receipt.fn = "submitRiskScore"
    /\ receipt.status = "success"
    /\ \E k1, k2 \in Keys :
          /\ GenesisTime < assetScores[k1].timestamp
          /\ assetScores[k1].timestamp < assetScores[k2].timestamp
          /\ assetScores[k2].timestamp = now

----------------------------------------------------------------------------
(* C24 *)

\* Arguments of writes the registry accepts, with a second task id and a
\* second number of iterations so that a write can differ from the record
\* it replaces in every field.
OverwriteTaskIds == TaskIds \cup {"task2"}

OverwriteIterations == {MIN_ITERATIONS, MIN_ITERATIONS + 1}

\* C24: a write replaces the whole record of its key. In every reachable
\* state, whatever record a key holds (none, or that of any earlier write),
\* a successful submitRiskScore leaves under its key exactly its own
\* arguments with the current time, and leaves every other key alone; so of
\* two writes to one key, in either order, the one mined last is the one
\* read afterwards. Every stored record is the one the last
\* RiskScoreUpdated of its key announced.
C24_LastWriteWins ==
    /\ \A k \in Keys :
          assetScores[k].timestamp # 0 =>
              /\ assetScores[k].varScore = lastWrite[k].varScore
              /\ assetScores[k].safeLTV = lastWrite[k].safeLTV
              /\ assetScores[k].timestamp = lastWrite[k].at
    /\ \A owner \in Owners, assetId \in AssetIds, p \in ScorePairs,
          teeTaskId \in OverwriteTaskIds, iterations \in OverwriteIterations :
          InRange(p[1], p[2]) =>
              LET tx == SubmitResult(teeOracle, owner, assetId, p[1], p[2],
                                     teeTaskId, iterations)
              IN  /\ tx.status = "success"
                  /\ tx.scores[<<owner, assetId>>] =
                        [varScore |-> p[1], safeLTV |-> p[2], timestamp |-> now,
                         teeTaskId |-> teeTaskId, iterations |-> iterations]
                  /\ \A k \in Keys \ {<<owner, assetId>>} :
                        tx.scores[k] = assetScores[k]

\* A write has just been mined under a key, long after deployment, and the
\* key holds it; a second write to the key that differs in every field
\* would replace the whole record.
C24_Witness ==
    LET k == <<User, "asset1">>
    IN  /\ receipt.fn = "submitRiskScore"
        /\ receipt.status = "success"
        /\ receipt.logs = <<RiskScoreUpdated(User, "asset1", MAX_LTV_BPS,
                                             MAX_LTV_BPS, "task1")>>
        /\ assetScores[k].varScore = MAX_LTV_BPS
        /\ assetScores[k].timestamp = now
        /\ now > GenesisTime + SCORE_VALIDITY_PERIOD
        /\ SubmitResult(teeOracle, User, "asset1", 1500, 7200, "task2",
                        MIN_ITERATIONS + 1).scores[k]
              = [varScore |-> 1500, safeLTV |-> 7200, timestamp |-> now,
                 teeTaskId |-> "task2", iterations |-> MIN_ITERATIONS + 1]

----------------------------------------------------------------------------
(* C25: one write at a time within a run *)

\* Run r has started on the asset at position p of its batch: the history
\* holds a call, or the chain a transaction, of the run for that asset.
StartedOn(r, p) ==
    LET id == started[r].protectedAssets[p]
    IN  \/ \E j \in EntriesOfRun(r) : log[j].asset = id
        \/ \E h \in DOMAIN txs : txs[h].run = r /\ txs[h].asset = id
        \/ route.pc # "idle" /\ route.run = r /\ route.asset = id

\* The transactions of run r that are broadcast and not yet mined.
InFlight(r) == { h \in DOMAIN txs : txs[h].run = r /\ txs[h].status = "pending" }

\* The part of C25 that holds: a run starts on an asset only after it has
\* reported the asset before it.
C25_OneAssetAtATime ==
    \A r \in DOMAIN started :
        \A p \in DOMAIN started[r].protectedAssets :
            (p > 1 /\ StartedOn(r, p)) =>
                ReportsOf(r, started[r].protectedAssets[p - 1]) # {}

\* C25: a run starts on an asset only after it has reported the asset
\* before it, and at no time are two transactions of one run in flight.
C25_NoParallelWrites ==
    /\ C25_OneAssetAtATime
    /\ \A r \in DOMAIN started : Cardinality(InFlight(r)) <= 1

----------------------------------------------------------------------------
(* C26: failures of the sponsored and relayed transports *)

\* The request of history entry e is still with the route.
Fetching(e) ==
    route.pc # "idle" /\ route.run = e.run /\ route.asset = e.asset

\* In every state: a fetch of the route that is over without a report of
\* its asset has failed, and then it is the last call of its run, the run
\* is over and shows the submission's error; and no asset is fetched twice
\* on one transport.
C26_FetchFailureHalts ==
    \A j \in DOMAIN log :
        LET e == log[j]
        IN  e.call \in {"sponsored", "relayed"} =>
                /\ Entries(e.run, e.asset, e.call) = {j}
                /\ Cardinality({ h \in DOMAIN txs :
                                   /\ txs[h].run = e.run
                                   /\ txs[h].asset = e.asset
                                   /\ txs[h].via = e.call }) <= 1
                /\ (~Fetching(e) /\ ReportsOf(e.run, e.asset) = {}) =>
                      /\ \A k \in EntriesOfRun(e.run) : k <= j
                      /\ e.run = runs =>
                            /\ executionStep = "error"
                            /\ frame = NoFrame
                            /\ Len(errorMessage) = 2
                            /\ errorMessage[1] = "On-chain submission failed: "

\* In every step that ends a fetch: after the route's answer 200 the asset
\* is reported with the answer's hash and the step is not error; after any
\* other answer, or none, the run ends in error with nothing reported,
\* called or broadcast.
C26_FetchOutcome ==
    (route.pc # "idle" /\ route' = NoRequest) =>
        IF route.pc = "responded" /\ route.status = 200
        THEN /\ Len(completed') = Len(completed) + 1
             /\ completed'[Len(completed')].assetId = route.asset
             /\ completed'[Len(completed')].txHash = route.txHash
             /\ executionStep' \in {"granting", "complete"}
             /\ errorMessage' = errorMessage
        ELSE /\ executionStep' = "error"
             /\ frame' = NoFrame
             /\ completed' = completed
             /\ log' = log
             /\ txs' = txs

\* C26: a failure of the sponsored transport, or of the relayed transport
\* used as fallback, ends the asset and the run in error with no further
\* attempt; a relayed fallback that succeeds after a failure of the direct
\* transport has the asset reported and leaves the run out of error.
C26_TransportFailureTerminal ==
    []C26_FetchFailureHalts /\ [][C26_FetchOutcome]_vars

\* The direct transport failed for both assets of a run; the relayed
\* fallback succeeded for the first, which is reported with the relayed
\* transaction, and failed for the second, where the run ended in error.
C26_Witness ==
    /\ runs = 1
    /\ executionStep = "error"
    /\ frame = NoFrame
    /\ Entries(1, AssetList[1], "walletErr") # {}
    /\ Entries(1, AssetList[1], "relayed") # {}
    /\ \E j \in ReportsOf(1, AssetList[1]) :
          /\ completed[j].txHash \in DOMAIN txs
          /\ txs[completed[j].txHash].via = "relayed"
    /\ Entries(1, AssetList[2], "walletErr") # {}
    /\ Entries(1, AssetList[2], "relayed") # {}
    /\ ReportsOf(1, AssetList[2]) = {}

----------------------------------------------------------------------------
(* C27: the values taken from the result blob *)

\* The field is there, whatever its value.
Present(obj, field) == field \in DOMAIN obj

\* The value of the field where it is present, top level first, and the
\* default where it is present at neither place.
Probed(result, field, default) ==
    IF Present(result, field) THEN result[field]
    ELSE IF Present(FirstResult(result), field) THEN FirstResult(result)[field]
    ELSE default

\* The activation has parsed its result and not yet finished its asset.
Parsed ==
    frame.pc \in {"fetchSponsored", "switchChainAsync", "sendTransaction",
                  "waitForTransactionReceipt", "fetchRelayed"}

\* C27: once the result is parsed, varBps and safeLTV are the blob's fields
\* wherever they are present, top level before results[0], and 1500 and
\* 7500 only where the field is at neither place; and the parsing raises
\* no error: the step after attesting is never error.
C27_ParsedFromBlob ==
    /\ Parsed =>
          /\ frame.varBps = Probed(frame.result, "var_95_bps", 1500)
          /\ frame.safeLTV = Probed(frame.result, "safe_ltv_bps", 7500)
    /\ frame.pc = "attesting" => executionStep = "attesting"
    /\ Parsed => executionStep \in {"saving", "confirming"}

\* The part of C27 that holds: a field that is present with a value other
\* than 0 is taken, top level first; a field that is absent from both
\* places gives the default; no blob makes the step error.
C27_ParsedWhenNotZero ==
    /\ Parsed =>
          /\ \A field \in {"var_95_bps", "safe_ltv_bps"} :
                LET got == IF field = "var_95_bps" THEN frame.varBps
                           ELSE frame.safeLTV
                    default == IF field = "var_95_bps" THEN 1500 ELSE 7500
                    first == FirstResult(frame.result)
                IN  /\ (Present(frame.result, field) /\ frame.result[field] # 0)
                          => got = frame.result[field]
                    /\ (~Present(frame.result, field)
                          /\ Present(first, field) /\ first[field] # 0)
                          => got = first[field]
                    /\ (~Present(frame.result, field) /\ ~Present(first, field))
                          => got = default
    /\ Parsed => executionStep \in {"saving", "confirming"}

----------------------------------------------------------------------------
(* C28: the aggregate progress *)

RunningSteps == {"granting", "processing", "attesting", "saving", "confirming"}

\* The sub-steps of the current asset that are completed at a step.
CompletedSubSteps(step) ==
    CASE step = "granting" -> 0
      [] step = "processing" -> 1
      [] step = "attesting" -> 2
      [] step = "saving" -> 3
      [] step = "confirming" -> 4

\* What the indicator credits the current asset with at a step, in tenths
\* of a sub-step: the completed sub-steps and a part of the one in progress.
CreditedTenths(step) ==
    CASE step = "granting" -> 5
      [] step = "processing" -> 15
      [] step = "attesting" -> 25
      [] step = "saving" -> 32
      [] step = "confirming" -> 40

\* Every asset of the batch of the last run started is reported.
AllReported ==
    /\ runs \in DOMAIN started
    /\ \A p \in DOMAIN started[runs].protectedAssets :
          ReportsOf(runs, started[runs].protectedAssets[p]) # {}

\* progress is 100 only in the step complete, with every asset reported.
FullOnlyWhenAllReported ==
    progress = 100 => (executionStep = "complete" /\ AllReported)

\* progress does not decrease in a step taken while a run is in progress.
NeverDecreases == (frame # NoFrame /\ runs' = runs) => progress' >= progress

\* C28 as stated: while a run is in progress, progress (in percent) is
\* (5 * i + k) / (5 * n) with k the number of completed sub-steps of asset
\* i; it never decreases during the run; and it is 100 only when every
\* asset of the batch has been reported.
C28_Original ==
    /\ [](frame # NoFrame =>
             progress * (STEPS_PER_ASSET * BatchSize(frame))
               = 100 * (STEPS_PER_ASSET * frame.i + CompletedSubSteps(executionStep)))
    /\ []FullOnlyWhenAllReported
    /\ [][NeverDecreases]_vars

\* C28: while a run is in progress, progress (in percent) is
\* (5 * i + c) / (5 * n), where c credits asset i with its completed
\* sub-steps and a part of the one in progress: 0.5 while granting, 1.5
\* while processing, 2.5 while attesting, 3.2 while saving, 4 while
\* confirming; it never decreases during the run; and it is 100 only when
\* every asset of the batch has been reported.
C28_Progress ==
    /\ [](frame # NoFrame =>
             /\ executionStep \in RunningSteps
             /\ progress * (STEPS_PER_ASSET * BatchSize(frame)) * 10
                  = 100 * (STEPS_PER_ASSET * frame.i * 10
                             + CreditedTenths(executionStep)))
    /\ []FullOnlyWhenAllReported
    /\ [][NeverDecreases]_vars

\* The second asset of a batch of two is being confirmed at 90 percent, the
\* first one reported.
C28_Witness ==
    /\ frame # NoFrame
    /\ frame.i = 1
    /\ BatchSize(frame) = 2
    /\ executionStep = "confirming"
    /\ progress = 90
    /\ ReportsOf(runs, AssetList[1]) # {}

----------------------------------------------------------------------------
(* C29: one transaction per asset *)

\* The transactions run r has caused for asset a.
WritesOf(r, a) == { h \in DOMAIN txs : txs[h].run = r /\ txs[h].asset = a }

\* C29: for each asset of a run at most one transaction is ever broadcast;
\* once the wallet's transaction is broadcast, none follows through the
\* route.
C29_OneWritePerAsset ==
    \A r \in DOMAIN started :
        \A p \in DOMAIN started[r].protectedAssets :
            Cardinality(WritesOf(r, started[r].protectedAssets[p])) <= 1

\* The part of C29 that holds: at most one transaction per asset on each
\* transport.
C29_OneWritePerTransport ==
    \A h, g \in DOMAIN txs :
        (txs[h].run = txs[g].run /\ txs[h].asset = txs[g].asset
           /\ txs[h].via = txs[g].via) => h = g

----------------------------------------------------------------------------
(* C30: the record is the same on every transport *)

\* What a transaction asks the registry to store, and under which key.
RecordOf(t) ==
    [owner |-> t.owner, assetId |-> t.assetId, varScore |-> t.varScore,
     safeLTV |-> t.safeLTV, teeTaskId |-> t.teeTaskId,
     iterations |-> t.iterations]

\* C30: the transactions of one run for one asset ask for the same record
\* under the same key, whichever transport broadcast them.
C30_SameRecordOnEveryTransport ==
    \A h, g \in DOMAIN txs :
        (txs[h].run = txs[g].run /\ txs[h].asset = txs[g].asset) =>
            RecordOf(txs[h]) = RecordOf(txs[g])

\* The part of C30 that holds: the same owner, key, values and iterations.
C30_SameKeyAndValues ==
    \A h, g \in DOMAIN txs :
        (txs[h].run = txs[g].run /\ txs[h].asset = txs[g].asset) =>
            [RecordOf(txs[h]) EXCEPT !.teeTaskId = ""]
              = [RecordOf(txs[g]) EXCEPT !.teeTaskId = ""]

----------------------------------------------------------------------------
(* C31: the route and the rotation of the oracle *)

\* The route has answered that the backend is not the oracle.
AnsweredUnauthorized ==
    /\ route.pc = "responded"
    /\ route.status = 403
    /\ route.error = "Backend wallet is not authorized as TEE oracle"

\* In every step that mines a transaction: it stores its record only if
\* its sender is the oracle of that moment, and otherwise it reverts and
\* every record stays as it was.
MinedByCurrentOracle ==
    \A h \in DOMAIN txs :
        (txs[h].status = "pending" /\ txs'[h].status # "pending") =>
            IF txs[h].from = teeOracle
            THEN txs'[h].status = "success"
            ELSE /\ txs'[h].status = "reverted"
                 /\ assetScores' = assetScores
                 /\ lastWrite' = lastWrite

\* In every state: the answer that the backend is not the oracle comes
\* without a transaction, and the route's transactions come from the
\* backend account.
NoWriteWhenUnauthorized ==
    /\ AnsweredUnauthorized => route.hash = 0
    /\ \A h \in DOMAIN txs :
          txs[h].via \in {"sponsored", "relayed"} => txs[h].from = account

\* The part of C31 that holds: no record is stored for a sender that is not
\* the current oracle, whenever the rotation is mined; and the route sends
\* nothing when its check finds another oracle.
C31_NoRecordByFormerOracle ==
    []NoWriteWhenUnauthorized /\ [][MinedByCurrentOracle]_vars

\* C31: no record is stored for a sender that is not the current oracle;
\* the route sends nothing when its check finds another oracle; and when
\* the transaction the route sent is rejected by the registry, the route's
\* answer is a failure.
C31_RouteReportsRejection ==
    /\ []NoWriteWhenUnauthorized
    /\ [][MinedByCurrentOracle]_vars
    /\ [](route.pc = "responded" /\ route.status = 200 =>
              txs[route.txHash].status = "success")

----------------------------------------------------------------------------
(* C32: a batch and the single writes of its tuples *)

\* The index of the last tuple of the batch for assetId.
LastIndexFor(scores, assetId) ==
    CHOOSE i \in 1..Len(scores) :
        /\ scores[i].assetId = assetId
        /\ \A j \in (i + 1)..Len(scores) : scores[j].assetId # assetId

\* C32: in every reachable state, for every sender, batch and iterations,
\* submitBulkRiskScores succeeds exactly when the batch is not empty and
\* submitRiskScore with the same sender, owner, task id and iterations would
\* succeed for each of its tuples; and when it succeeds, every key the batch
\* names holds what the single write of the last tuple for that key would
\* store at the same time, and every other key and the oracle are as before.
C32_BulkAsSingles ==
    \A sender \in Addresses, owner \in Owners, scores \in DeepBulkInputs,
       teeTaskId \in TaskIds, iterations \in IterationInputs :
       LET bulk == BulkResult(sender, owner, scores, teeTaskId, iterations)
           single(i) == SubmitResult(sender, owner, scores[i].assetId,
                                     scores[i].varScore, scores[i].safeLTV,
                                     teeTaskId, iterations)
       IN  /\ bulk.status = "success" <=>
                 /\ Len(scores) >= 1
                 /\ \A i \in 1..Len(scores) : single(i).status = "success"
           /\ bulk.status = "success" =>
                 /\ bulk.oracle = teeOracle
                 /\ \A k \in Keys :
                       bulk.scores[k] =
                           IF k[1] = owner /\ InBatch(scores, k[2])
                           THEN single(LastIndexFor(scores, k[2])).scores[k]
                           ELSE assetScores[k]

\* A batch that names asset1 twice with different values was just mined,
\* and asset1 holds what the single write of the second tuple would store.
C32_Witness ==
    LET k == <<User, "asset1">>
    IN  /\ receipt.fn = "submitBulkRiskScores"
        /\ receipt.status = "success"
        /\ Len(receipt.logs) = 3
        /\ receipt.logs[1] = RiskScoreUpdated(User, "asset1", 1500, 7200, "task1")
        /\ receipt.logs[2] = RiskScoreUpdated(User, "asset1", MAX_LTV_BPS,
                                              MAX_LTV_BPS, "task1")
        /\ assetScores[k].timestamp = now
        /\ assetScores[k] = SubmitResult(teeOracle, User, "asset1", MAX_LTV_BPS,
                                         MAX_LTV_BPS, "task1",
                                         MIN_ITERATIONS).scores[k]

----------------------------------------------------------------------------
(* C33: what changes the validity of a key *)

\* What the read functions answer for a key, calculateMaxBorrow for a
\* collateral value every safeLTV can be multiplied with and for one that
\* overflows.
ViewsOf(k) ==
    <<isScoreValid(k[1], k[2]), getVaRScore(k[1], k[2]), getSafeLTV(k[1], k[2]),
      calculateMaxBorrow(k[1], k[2], 1000),
      calculateMaxBorrow(k[1], k[2], UINT_MAX)>>

\* The receipt is that of a successful write that names the key.
WroteKey(r, k) ==
    /\ r.fn \in {"submitRiskScore", "submitBulkRiskScores"}
    /\ r.status = "success"
    /\ \E i \in 1..Len(r.logs) :
          /\ r.logs[i].event = "RiskScoreUpdated"
          /\ r.logs[i].owner = k[1]
          /\ r.logs[i].assetId = k[2]

\* The step is a successful write of the current oracle.
WriteOfTheOracle ==
    \/ \E owner \in Owners, assetId \in AssetIds, p \in ScorePairs,
          teeTaskId \in TaskIds, iterations \in IterationInputs :
          LET tx == SubmitResult(teeOracle, owner, assetId, p[1], p[2],
                                 teeTaskId, iterations)
          IN  tx.status = "success" /\ assetScores' = tx.scores
    \/ \E owner \in Owners, scores \in BulkInputs, teeTaskId \in TaskIds,
          iterations \in IterationInputs :
          LET tx == BulkResult(teeOracle, owner, scores, teeTaskId, iterations)
          IN  tx.status = "success" /\ assetScores' = tx.scores

\* C33: in every step and for every key: the key becomes valid only in a
\* step that mines a successful write of the current oracle naming the key;
\* it becomes invalid only in a step in which time passes and nothing is
\* written; and a step in which no time passes and which is not a
\* successful write naming the key (a failed write, a write to other keys,
\* a setTEEOracle) leaves isScoreValid, getVaRScore, getSafeLTV and
\* calculateMaxBorrow of the key as they were.
C33_ValidityChanges ==
    [][ \A k \in Keys :
          /\ (~isScoreValid(k[1], k[2]) /\ isScoreValid(k[1], k[2])') =>
                /\ WroteKey(receipt', k)
                /\ WriteOfTheOracle
                /\ now' = now
          /\ (isScoreValid(k[1], k[2]) /\ ~isScoreValid(k[1], k[2])') =>
                /\ now' > now
                /\ assetScores' = assetScores
          /\ (now' = now /\ ~WroteKey(receipt', k)) => ViewsOf(k)' = ViewsOf(k)
      ]_vars

\* A rotation was just mined while one key is valid and the other has
\* expired.
C33_Witness ==
    /\ receipt.fn = "setTEEOracle"
    /\ receipt.status = "success"
    /\ \E k1, k2 \in Keys :
          /\ isScoreValid(k1[1], k1[2])
          /\ lastWrite[k2].at # 0
          /\ ~isScoreValid(k2[1], k2[2])

----------------------------------------------------------------------------
(* C34 *)

\* C34: in every reachable state, for every key and every collateralValue,
\* a value calculateMaxBorrow returns is at most the collateralValue.
C34_BorrowAtMostCollateral ==
    \A k \in Keys, V \in CollateralValues :
        LET r == calculateMaxBorrow(k[1], k[2], V)
        IN  r.ok => r.value <= V

\* A live record on the ceiling (safeLTV 10000) lends the whole collateral,
\* and the other key's live record lends less than it.
C34_Witness ==
    \E k1, k2 \in Keys :
        /\ Live(k1) /\ assetScores[k1].safeLTV = MAX_LTV_BPS
        /\ calculateMaxBorrow(k1[1], k1[2], 1001) = [ok |-> TRUE, value |-> 1001]
        /\ Live(k2) /\ assetScores[k2].safeLTV = 7200
        /\ calculateMaxBorrow(k2[1], k2[2], 1001) = [ok |-> TRUE, value |-> 720]

----------------------------------------------------------------------------
(* C35 *)

\* C35: the oracle identity is never zero. The constructor reverts for a
\* zero oracle; and in every reachable state the oracle is not zero and no
\* setTEEOracle, submitRiskScore or submitBulkRiskScores, by any sender and
\* with any arguments, successful or not, leaves a zero oracle.
C35_OracleNeverZero ==
    /\ teeOracle # ZeroAddress
    /\ \A initialOwner \in Addresses :
          constructorBody(initialOwner, ZeroAddress).status = "ZeroAddress"
    /\ \A sender \in Addresses, newOracle \in Addresses \cup {ZeroAddress} :
          RotateResult(sender, newOracle).oracle # ZeroAddress
    /\ \A sender \in Addresses, owner \in Owners, teeTaskId \in TaskIds,
          iterations \in IterationInputs :
          /\ \A assetId \in AssetIds, p \in ScorePairs :
                SubmitResult(sender, owner, assetId, p[1], p[2], teeTaskId,
                             iterations).oracle # ZeroAddress
          /\ \A scores \in BulkInputs :
                BulkResult(sender, owner, scores, teeTaskId,
                           iterations).oracle # ZeroAddress

\* The owner's rotation to the zero identity was just rejected, after an
\* earlier rotation had replaced the oracle of the deployment.
C35_Witness ==
    /\ receipt.fn = "setTEEOracle"
    /\ receipt.status = "ZeroAddress"
    /\ teeOracle \notin {ZeroAddress, constructorBody(Admin, OracleA).oracle}

----------------------------------------------------------------------------
(* C36: what each function of the registry leaves alone *)

\* C36: in every reachable state, for every sender and all arguments: a
\* successful submitRiskScore changes no record but that of its key and
\* not the oracle; a successful submitBulkRiskScores changes no record but
\* those of its owner's keys that the batch names, and not the oracle; a
\* setTEEOracle, successful or not, changes no record, and changes the
\* oracle only when it succeeds. The read functions are views of the
\* records and the time and have no next state.
C36_FrameConditions ==
    /\ \A sender \in Addresses, owner \in Owners, teeTaskId \in TaskIds,
          iterations \in IterationInputs :
          /\ \A assetId \in AssetIds, p \in ScorePairs :
                LET tx == SubmitResult(sender, owner, assetId, p[1], p[2],
                                       teeTaskId, iterations)
                IN  /\ tx.oracle = teeOracle
                    /\ \A k \in Keys :
                          tx.scores[k] # assetScores[k] =>
                              (tx.status = "success" /\ k = <<owner, assetId>>)
          /\ \A scores \in BulkInputs :
                LET tx == BulkResult(sender, owner, scores, teeTaskId, iterations)
                IN  /\ tx.oracle = teeOracle
                    /\ \A k \in Keys :
                          tx.scores[k] # assetScores[k] =>
                              /\ tx.status = "success"
                              /\ k[1] = owner
                              /\ InBatch(scores, k[2])
    /\ \A sender \in Addresses, newOracle \in Addresses \cup {ZeroAddress} :
          LET tx == RotateResult(sender, newOracle)
          IN  /\ tx.scores = assetScores
              /\ tx.oracle # teeOracle => tx.status = "success"

\* A write to asset1 was just mined and changed its record, while asset2
\* keeps an older record with other values.
C36_Witness ==
    LET k1 == <<User, "asset1">>
        k2 == <<User, "asset2">>
    IN  /\ receipt.fn = "submitRiskScore"
        /\ receipt.status = "success"
        /\ receipt.logs[1].assetId = "asset1"
        /\ assetScores[k1].timestamp = now
        /\ assetScores[k2].timestamp # 0
        /\ assetScores[k2].timestamp < now
        /\ assetScores[k2].varScore # assetScores[k1].varScore
        /\ teeOracle = OracleB

----------------------------------------------------------------------------
(* C37: a run started again after an error leaves out what was reported *)

\* The asset id occurs in the batch.
InList(list, id) == \E p \in DOMAIN list : list[p] = id

\* An earlier run than r reported the asset through onComputeComplete.
ReportedBefore(r, id) ==
    \E j \in DOMAIN completed :
        completed[j].run < r /\ completed[j].assetId = id

\* C37: an asset that a run reported is marked computed, and every run
\* started after that run has a batch without it: the batch of a run is the
\* asset list without the assets earlier runs reported, in list order, and
\* the run makes no external call, broadcasts no transaction and sends the
\* route no request for an asset an earlier run reported.
C37_PartialProgressKept ==
    /\ \A j \in DOMAIN completed : assets[completed[j].assetId] = "computed"
    /\ \A r \in DOMAIN started :
          /\ started[r].protectedAssets =
                 SelectSeq(AssetList, LAMBDA id : ~ReportedBefore(r, id))
          /\ \A id \in DOMAIN assets :
                ReportedBefore(r, id) =>
                    /\ ~InList(started[r].protectedAssets, id)
                    /\ \A j \in EntriesOfRun(r) : log[j].asset # id
                    /\ \A h \in DOMAIN txs :
                          txs[h].run = r => txs[h].asset # id
                    /\ (route.pc # "idle" /\ route.run = r) => route.asset # id

\* The first run reported asset-1 and ended in error at asset-2; the second
\* run, started from the error, has the batch of asset-2 alone and has
\* broadcast a write for it.
C37_Witness ==
    /\ runs = 2
    /\ Halted(1)
    /\ ReportsOf(1, "asset-1") # {}
    /\ started[2].protectedAssets = <<"asset-2">>
    /\ Entries(2, "asset-2", "processData") # {}
    /\ \E h \in DOMAIN txs : txs[h].run = 2 /\ txs[h].asset = "asset-2"

----------------------------------------------------------------------------
(* C38: the values of the computation endpoint reach the registry *)

\* The submission of the asset in progress is under way.
Submitting ==
    /\ frame # NoFrame
    /\ frame.pc \in {"switchChainAsync", "sendTransaction",
                     "waitForTransactionReceipt", "fetchSponsored", "fetchRelayed"}

\* The endpoint's answer carried results with var_95_bps and safe_ltv_bps.
AnsweredBoth(response) ==
    /\ "results" \in DOMAIN response
    /\ "var_95_bps" \in DOMAIN response.results
    /\ "safe_ltv_bps" \in DOMAIN response.results

\* C38: while an asset whose computation answered with var_95_bps and
\* safe_ltv_bps is being submitted, the values parsed for it, the body sent
\* to the route and every transaction broadcast for it carry those values,
\* the value at risk capped at 9500.
C38_EndpointValuesSubmitted ==
    (Submitting /\ AnsweredBoth(frame.response)) =>
        LET res == frame.response.results
        IN  /\ frame.varBps = res.var_95_bps
            /\ frame.safeLTV = res.safe_ltv_bps
            /\ (route.pc # "idle" /\ route.run = runs /\ route.asset = Asset(frame))
                   => /\ route.body.varScore = Min(res.var_95_bps, 9500)
                      /\ route.body.safeLTV = res.safe_ltv_bps
            /\ \A h \in DOMAIN txs :
                  (txs[h].run = runs /\ txs[h].asset = Asset(frame))
                      => /\ txs[h].varScore = Min(res.var_95_bps, 9500)
                         /\ txs[h].safeLTV = res.safe_ltv_bps

----------------------------------------------------------------------------
(* C39: every run ends, and a run that ended in error does nothing more *)

\* Run r is in progress: its activation of executeComputation is live.
Running(r) == runs = r /\ frame # NoFrame

\* Run r has just ended: no activation and no request of it is left, and
\* the panel shows error, or complete with every asset of the batch
\* reported.
RunEnded(r) ==
    /\ runs = r
    /\ frame = NoFrame
    /\ route = NoRequest
    /\ \/ executionStep = "error"
       \/ /\ executionStep = "complete"
          /\ \A p \in DOMAIN started[r].protectedAssets :
                ReportsOf(r, started[r].protectedAssets[p]) # {}

\* While the panel shows error and no new run is started, the step, the
\* progress, the position in the batch and the activation stay as they are,
\* no external call is made, nothing is reported, no transaction is
\* broadcast and no request is sent to the route.
QuietInError ==
    (executionStep = "error" /\ runs' = runs) =>
        /\ executionStep' = "error"
        /\ frame' = NoFrame
        /\ frame = NoFrame
        /\ progress' = progress
        /\ currentAssetIndex' = currentAssetIndex
        /\ log' = log
        /\ completed' = completed
        /\ Len(txs') = Len(txs)
        /\ route' = NoRequest
        /\ route = NoRequest

\* C39: if every await of a run settles, every run that was started ends,
\* in complete with all its assets reported or in error; and from the
\* moment the panel shows error until a new run is started, the run makes
\* no step, no external call, no broadcast and no request.
C39_EveryRunEnds ==
    /\ \A r \in 1..MaxReruns : Running(r) ~> RunEnded(r)
    /\ [][QuietInError]_vars

\* A second run, started after the first ended in error, has completed, and
\* a wait for a receipt had timed out on the way.
C39_Witness ==
    /\ runs = 2
    /\ RunEnded(2)
    /\ executionStep = "complete"
    /\ \E j \in DOMAIN log :
          /\ log[j].call = "walletErr"
          /\ log[j].message = "Timed out while waiting for transaction."

====
